---- MODULE Spec2Model ----
(***************************************************************************)
(* perf-to-statemap: the driver loop of main() that replays the records of *)
(* a perf.data capture, decodes every tracepoint sample into an Event and  *)
(* applies it to the per-CPU slots `states` / `prev_states`, writing one   *)
(* JSON line per applied sample.                                           *)
(*                                                                         *)
(* Strings are sequences of one-character strings, so that formatting      *)
(* ("{comm}:{pid}", "{cpuid}", "IRQ {irq}: {name}") is modelled by what    *)
(* it does.  Option<CompactString> is a record [some, val].                *)
(***************************************************************************)
EXTENDS Integers, Sequences, FiniteSets, TLC

-----------------------------------------------------------------------------
(* Bounds of the model: the size of the capture that is replayed.          *)

\* nr_cpus_available of the capture
NumCpus == 2
\* number of records the record iterator delivers
MaxRecords == 3
\* sample_time_range().first_sample_time of the capture (ns)
FirstSampleTime == 7
\* distance (ns) between the timestamps of two consecutive samples
SampleSpacing == 1

-----------------------------------------------------------------------------
(* types.rs: CpuState, #[repr(u8)]                                         *)

Idle == 0
Irq == 1
Softirq == 2
Tasklet == 3
Kernel == 4
User == 5

CpuState == {Idle, Irq, Softirq, Tasklet, Kernel, User}

\* parsers.rs: TASK_COMM_LEN
TASK_COMM_LEN == 16

\* parsers.rs: Action
Action == {"Ignore", "Switch", "Migrate", "EnterIrq", "ExitIrq",
           "EnterSoftirq", "ExitSoftirq", "EnterTasklet", "ExitTasklet"}

-----------------------------------------------------------------------------
(* Strings and formatting                                                  *)

\* the NUL byte of a C string
NUL == "\\0"
\* a byte that is not valid UTF-8, and U+FFFD which from_utf8_lossy puts for it
BadByte == "\\xff"
Replacement == "U+FFFD"

None == [some |-> FALSE, val |-> <<>>]
Some(s) == [some |-> TRUE, val |-> s]

DecDigits == <<"0", "1", "2", "3", "4", "5", "6", "7", "8", "9">>
HexDigits == <<"0", "1", "2", "3", "4", "5", "6", "7", "8", "9",
               "a", "b", "c", "d", "e", "f">>

RECURSIVE FormatUnsigned(_)
\* Display of an unsigned integer: format!("{value}")
FormatUnsigned(n) ==
    IF n < 10 THEN <<DecDigits[n + 1]>>
    ELSE FormatUnsigned(n \div 10) \o <<DecDigits[(n % 10) + 1]>>

\* Display of an i32: format!("{irq}")
FormatSigned(n) ==
    IF n < 0 THEN <<"-">> \o FormatUnsigned(0 - n) ELSE FormatUnsigned(n)

RECURSIVE HexOf(_)
HexOf(n) ==
    IF n < 16 THEN <<HexDigits[n + 1]>>
    ELSE HexOf(n \div 16) \o <<HexDigits[(n % 16) + 1]>>

\* mutant: LowerHex without the alternate flag, format!("{tasklet:x}")
FormatHexAlt_NoPrefix(n) == HexOf(n)

\* LowerHex with the alternate flag: format!("{tasklet:#x}")
FormatHexAlt(n) == <<"0", "x">> \o HexOf(n)

\* CompactString::from_utf8_lossy
Utf8Lossy(bytes) ==
    [i \in 1..Len(bytes) |-> IF bytes[i] = BadByte THEN Replacement ELSE bytes[i]]

\* slice::starts_with
StartsWith(s, prefix) ==
    /\ Len(s) >= Len(prefix)
    /\ \A i \in 1..Len(prefix) : s[i] = prefix[i]

\* CStr::from_bytes_until_nul: the bytes before the first NUL, or an error
HasNul(bytes) == \E i \in 1..Len(bytes) : bytes[i] = NUL
FirstNul(bytes) ==
    CHOOSE i \in 1..Len(bytes) :
        bytes[i] = NUL /\ \A j \in 1..(i - 1) : bytes[j] # NUL
FromBytesUntilNul(bytes) == SubSeq(bytes, 1, FirstNul(bytes) - 1)

-----------------------------------------------------------------------------
(* parsers.rs: Event::classify                                             *)

S_swapper == <<"s", "w", "a", "p", "p", "e", "r", "/">>
S_migration == <<"m", "i", "g", "r", "a", "t", "i", "o", "n", "/">>
S_ksoftirqd == <<"k", "s", "o", "f", "t", "i", "r", "q", "d", "/">>
S_irq == <<"i", "r", "q", "/">>
S_kworker == <<"k", "w", "o", "r", "k", "e", "r", "/">>
S_rcu == <<"r", "c", "u", "_">>

\* mutant: the rule for "rcu_" is missing
Classify_NoRcu(comm) ==
    IF StartsWith(comm, S_swapper) THEN Idle
    ELSE IF StartsWith(comm, S_migration) THEN Idle
    ELSE IF StartsWith(comm, S_ksoftirqd) THEN Softirq
    ELSE IF StartsWith(comm, S_irq) THEN Irq
    ELSE IF StartsWith(comm, S_kworker) THEN Kernel
    ELSE User

Classify(comm) ==
    IF StartsWith(comm, S_swapper) THEN Idle
    ELSE IF StartsWith(comm, S_migration) THEN Idle
    ELSE IF StartsWith(comm, S_ksoftirqd) THEN Softirq
    ELSE IF StartsWith(comm, S_irq) THEN Irq
    ELSE IF StartsWith(comm, S_kworker) \/ StartsWith(comm, S_rcu) THEN Kernel
    ELSE User

-----------------------------------------------------------------------------
(* parsers.rs: Event and Event::parse_impl.  A raw payload is a record     *)
(* [len, ...]: `len` is the number of payload bytes, the other fields are  *)
(* the values the reads return when the bytes are there.                   *)

BeginThread(state, comm, pid) ==
    [kind |-> "BeginThread", state |-> state, comm |-> comm, pid |-> pid]
BeginOther(state, tag) == [kind |-> "BeginOther", state |-> state, tag |-> tag]
End == [kind |-> "End"]
Migrate(from, to) == [kind |-> "Migrate", from |-> from, to |-> to]

Ok(e) == [ok |-> TRUE, event |-> e]
Err == [ok |-> FALSE]

\* parse_common: common_type u16, common_flags u8, common_preempt_count u8,
\* common_pid i32
CommonBytes == 2 + 1 + 1 + 4
SwitchBytes == CommonBytes + TASK_COMM_LEN + 4 + 4 + 8 + TASK_COMM_LEN + 4 + 4
MigrateBytes == CommonBytes + 4 + 4 + 4 + 4 + 4
EnterIrqBytes == CommonBytes + 4 + 4
EnterSoftirqBytes == CommonBytes + 4
EnterTaskletBytes == CommonBytes + 8 + 8

\* the field offset trace_string is called with for irq_handler_entry.name
IrqNameFieldOffset == 12

S_IRQ == <<"I", "R", "Q", " ">>
S_Softirq == <<"S", "o", "f", "t", "i", "r", "q", " ">>
S_Tasklet == <<"T", "a", "s", "k", "l", "e", "t", " ">>

\* trace_string: `rest` are the payload bytes after the pointer that was read
TraceString(field_offset, name_ptr, rest) ==
    LET low == name_ptr % 65536
        name_len == name_ptr \div 65536
        name_offset == low - field_offset - 4
    IN  IF low < field_offset + 4
        THEN Err    \* u32 underflow: overflow panic, or a wrapped offset out of range
        ELSE IF name_offset + name_len > Len(rest)
        THEN Err    \* "Failed to get string field"
        ELSE LET name == SubSeq(rest, name_offset + 1, name_offset + name_len)
             IN  IF ~HasNul(name)
                 THEN Err    \* "Could not find nul byte while parsing field"
                 ELSE Ok(Utf8Lossy(FromBytesUntilNul(name)))

ParseImpl(action, data) ==
    CASE action = "Switch" ->
            IF data.len < SwitchBytes THEN Err
            ELSE IF ~HasNul(data.next_comm) THEN Err
            ELSE LET next_comm == FromBytesUntilNul(data.next_comm)
                 IN  Ok(BeginThread(Classify(next_comm), Utf8Lossy(next_comm),
                                    data.next_pid))
      [] action = "Migrate" ->
            IF data.len < MigrateBytes THEN Err
            ELSE Ok(Migrate(data.orig_cpu, data.dest_cpu))
      [] action = "EnterIrq" ->
            IF data.len < EnterIrqBytes THEN Err
            ELSE LET name == TraceString(IrqNameFieldOffset, data.name_ptr, data.rest)
                 IN  IF ~name.ok THEN Err
                     ELSE Ok(BeginOther(Irq, S_IRQ \o FormatSigned(data.irq)
                                              \o <<":", " ">> \o name.event))
      [] action = "ExitIrq" -> Ok(End)
      [] action = "EnterSoftirq" ->
            IF data.len < EnterSoftirqBytes THEN Err
            ELSE Ok(BeginOther(Softirq, S_Softirq \o FormatUnsigned(data.vec)))
      [] action = "ExitSoftirq" -> Ok(End)
      [] action = "EnterTasklet" ->
            IF data.len < EnterTaskletBytes THEN Err
            ELSE Ok(BeginOther(Tasklet, S_Tasklet \o FormatHexAlt(data.tasklet)))
      [] action = "ExitTasklet" -> Ok(End)

-----------------------------------------------------------------------------
(* main.rs: action_mapping                                                 *)

ActionOfName(name) ==
    CASE name = "irq:irq_handler_entry" -> "EnterIrq"
      [] name = "irq:irq_handler_exit" -> "ExitIrq"
      [] name = "irq:softirq_entry" -> "EnterSoftirq"
      [] name = "irq:softirq_exit" -> "ExitSoftirq"
      [] name = "irq:tasklet_entry" -> "EnterTasklet"
      [] name = "irq:tasklet_exit" -> "ExitTasklet"
      [] name = "sched:sched_migrate_task" -> "Migrate"
      [] name = "sched:sched_switch" -> "Switch"
      [] OTHER -> "Ignore"

\* mutant: an ignored attribute gets no entry
ActionMapping_SkipsIgnored(attrs) ==
    LET kept == SelectSeq(attrs, LAMBDA name : ActionOfName(name) # "Ignore")
    IN  [i \in 0..(Len(kept) - 1) |-> ActionOfName(kept[i + 1])]

\* the index is the attribute index, from 0
ActionMapping(attrs) == [i \in 0..(Len(attrs) - 1) |-> ActionOfName(attrs[i + 1])]

-----------------------------------------------------------------------------
(* The capture that is replayed: attributes, payloads, CLOCK_DATA          *)

Cpus == 0..(NumCpus - 1)

\* perf_file.event_attributes(): the names, in attribute-index order
EventAttributes ==
    <<"sched:sched_switch", "sched:sched_migrate_task",
      "irq:irq_handler_entry", "irq:irq_handler_exit",
      "irq:softirq_entry", "irq:softirq_exit",
      "irq:tasklet_entry", "irq:tasklet_exit",
      "sched:sched_wakeup", "power:cpu_idle">>

AttrIndexes == 0..(Len(EventAttributes) - 1)

S_bash == <<"b", "a", "s", "h">>
S_swapper0 == <<"s", "w", "a", "p", "p", "e", "r", "/", "0">>
S_eth0 == <<"e", "t", "h", "0">>
S_sixteen == <<"a", "b", "c", "d", "e", "f", "g", "h",
               "i", "j", "k", "l", "m", "n", "o", "p">>

\* a char[TASK_COMM_LEN] field holding `comm`, NUL padded
CommField(comm) ==
    [i \in 1..TASK_COMM_LEN |-> IF i <= Len(comm) THEN comm[i] ELSE NUL]

\* a __data_loc pointer: length in the upper 16 bits, offset in the lower
DataLoc(offset, length) == length * 65536 + offset

\* sample.raw is None
NoRawData == [len |-> -1]

SwitchPayloads ==
    {[len |-> SwitchBytes, next_comm |-> CommField(S_bash), next_pid |-> 42],
     [len |-> SwitchBytes, next_comm |-> CommField(S_swapper0), next_pid |-> 0],
     [len |-> SwitchBytes, next_comm |-> S_sixteen, next_pid |-> 42],
     [len |-> SwitchBytes - 4, next_comm |-> CommField(S_bash), next_pid |-> 42]}

\* tasks move between CPU 0 and CPU 1; every CPU id is one of the capture
MigratePayloads ==
    {[len |-> MigrateBytes, orig_cpu |-> 0, dest_cpu |-> 1],
     [len |-> MigrateBytes, orig_cpu |-> 1, dest_cpu |-> 0],
     [len |-> MigrateBytes, orig_cpu |-> 0, dest_cpu |-> 0],
     [len |-> MigrateBytes - 4, orig_cpu |-> 0, dest_cpu |-> 1]}

EnterIrqPayloads ==
    {[len |-> EnterIrqBytes + 5, irq |-> 7,
      name_ptr |-> DataLoc(EnterIrqBytes, 5), rest |-> S_eth0 \o <<NUL>>],
     [len |-> EnterIrqBytes + 5, irq |-> 7,
      name_ptr |-> DataLoc(EnterIrqBytes, 9), rest |-> S_eth0 \o <<NUL>>],
     [len |-> EnterIrqBytes + 5, irq |-> 7,
      name_ptr |-> DataLoc(EnterIrqBytes, 4), rest |-> S_eth0 \o <<NUL>>],
     [len |-> EnterIrqBytes + 5, irq |-> 7,
      name_ptr |-> DataLoc(8, 5), rest |-> S_eth0 \o <<NUL>>]}

EnterSoftirqPayloads ==
    {[len |-> EnterSoftirqBytes, vec |-> 3],
     [len |-> CommonBytes, vec |-> 3]}

EnterTaskletPayloads ==
    {[len |-> EnterTaskletBytes, tasklet |-> 31],
     [len |-> EnterTaskletBytes - 8, tasklet |-> 31]}

\* an exit sample is never read
ExitPayloads == {[len |-> 0]}

Payloads(action) ==
    CASE action = "Switch" -> SwitchPayloads
      [] action = "Migrate" -> MigratePayloads
      [] action = "EnterIrq" -> EnterIrqPayloads
      [] action = "EnterSoftirq" -> EnterSoftirqPayloads
      [] action = "EnterTasklet" -> EnterTaskletPayloads
      [] OTHER -> ExitPayloads

\* the CLOCK_DATA feature section: the capture has none
NoClockData == [present |-> FALSE]
ClockDataOptions == {NoClockData}

\* Event::parse_impl of every payload of the capture, computed once
DecodableActions == Action \ {"Ignore"}
ParseTable ==
    [action \in DecodableActions |->
        [data \in Payloads(action) |-> ParseImpl(action, data)]]

\* Event::parse
Parse(action, data) == ParseTable[action][data]

-----------------------------------------------------------------------------
(* State                                                                   *)

VARIABLES
    pc,             \* "start", "loop" (the while-let loop), "aborted"
    states,         \* main: states, the current slot of every CPU
    prev_states,    \* main: prev_states, the saved slot of every CPU
    output,         \* the lines written to the writer, in order
    action_map,     \* main: action_map
    start_time,     \* main: start_time
    ctr,            \* main: ctr, the number of SAMPLE records seen
    nrec,           \* records delivered by record_iter so far
    clock,          \* timestamp of the next sample the iterator delivers
    last,           \* history: what the latest record was decoded to
    hist,           \* history: per CPU, the (state, tag) current[c] had before
                    \* each BeginOther since the last Switch/Migrate touching c
    entered,        \* history: the CPUs a BeginOther was applied on
    call,           \* a call of one function on its own: the arguments
    ret             \* the value that call returned

vars == <<pc, states, prev_states, output, action_map, start_time, ctr, nrec,
          clock, last, hist, entered, call, ret>>

\* statemap.rs: StatemapInputDatum, with Default for all but `entity`
NewDatum(cpuid) ==
    [time |-> 0, entity |-> FormatUnsigned(cpuid), state |-> Idle, tag |-> None]

\* serde_json::to_writer(&states[cpu]): time goes through serialize_as_string
SerializeDatum(datum) ==
    [time |-> FormatUnsigned(datum.time), entity |-> datum.entity,
     state |-> datum.state, tag |-> datum.tag]

NS_PER_S == 1000000000

\* write_header: the time origin
HeaderTs(clock_data, first_sample_time) ==
    IF clock_data.present
    THEN clock_data.wall_clock_ns + (first_sample_time - clock_data.clockid_time_ns)
    ELSE 0

\* write_header: the metadata line
HeaderLine(clock_data, first_sample_time) ==
    LET ts == HeaderTs(clock_data, first_sample_time)
    IN  [start |-> <<ts \div NS_PER_S, ts % NS_PER_S>>,
         title |-> "CPU",
         host |-> None,
         entityKind |-> "CPU",
         states |-> [Idle |-> [color |-> "#e0e0e0", value |-> Idle],
                     Irq |-> [color |-> "#FF0000", value |-> Irq],
                     Softirq |-> [color |-> "#FF8000", value |-> Softirq],
                     Tasklet |-> [color |-> "#FFBF00", value |-> Tasklet],
                     Kernel |-> [color |-> "#2E4E00", value |-> Kernel],
                     User |-> [color |-> "#9BC362", value |-> User]]]

IsHeader(line) == "start" \in DOMAIN line
IsDatum(line) == "entity" \in DOMAIN line

NoSample == [kind |-> "none"]

\* no function is called on its own while main runs
NoCall == [fn |-> "none"]

Init ==
    /\ pc = "start"
    /\ states = [cpuid \in Cpus |-> NewDatum(cpuid)]
    /\ prev_states = [cpuid \in Cpus |-> NewDatum(cpuid)]
    /\ output = <<>>
    /\ action_map = <<>>
    /\ start_time = 0
    /\ ctr = 0
    /\ nrec = 0
    /\ clock = FirstSampleTime
    /\ last = NoSample
    /\ hist = [c \in Cpus |-> <<>>]
    /\ entered = {}
    /\ call = NoCall
    /\ ret = NoCall

\* main, up to the loop: write_header, action_mapping, start_time, ctr = 0
Startup(clock_data) ==
    /\ pc = "start"
    /\ output' = Append(output, HeaderLine(clock_data, FirstSampleTime))
    /\ action_map' = ActionMapping(EventAttributes)
    /\ start_time' = FirstSampleTime
    /\ ctr' = 0
    /\ pc' = "loop"
    /\ UNCHANGED <<states, prev_states, nrec, clock, last, hist, entered, call, ret>>

-----------------------------------------------------------------------------
(* main: the match on the decoded event                                    *)

\* mutant: a switch inside an interrupt context keeps the interrupt state
ApplyBeginThread_KeepsInterrupt(st, cpu, state, comm, pid) ==
    [st EXCEPT ![cpu].state = IF st[cpu].state \in {Irq, Softirq, Tasklet}
                              THEN st[cpu].state ELSE state,
               ![cpu].tag = Some(comm \o <<":">> \o FormatUnsigned(pid))]

\* Event::BeginThread arm
ApplyBeginThread(st, cpu, state, comm, pid) ==
    [st EXCEPT ![cpu].state = state,
               ![cpu].tag = Some(comm \o <<":">> \o FormatUnsigned(pid))]

\* mutant: the slot is never saved
SaveSlot_Forgotten(prev, st, cpu) == prev

\* mutant: the slots of all CPUs are saved
SaveSlot_AllCpus(prev, st, cpu) == st

\* mutant: only the outermost context is saved
SaveSlot_OutermostOnly(prev, st, cpu) ==
    IF st[cpu].state \in {Irq, Softirq, Tasklet} THEN prev
    ELSE [prev EXCEPT ![cpu] = st[cpu]]

\* Event::BeginOther arm: prev_states[cpu].clone_from(&states[cpu])
SaveSlot(prev, st, cpu) == [prev EXCEPT ![cpu] = st[cpu]]

\* Event::BeginOther arm: the two assignments to states[cpu]
ApplyBeginOther(st, cpu, state, tag) ==
    [st EXCEPT ![cpu].state = state, ![cpu].tag = Some(tag)]

\* mutant: the saved slot is restored only from an interrupt context
ApplyEnd_OnlyInInterrupt(st, prev, cpu) ==
    IF st[cpu].state \in {Irq, Softirq, Tasklet}
    THEN [st EXCEPT ![cpu] = prev[cpu]]
    ELSE st

\* Event::End arm: states[cpu].clone_from(&prev_states[cpu])
ApplyEnd(st, prev, cpu) == [st EXCEPT ![cpu] = prev[cpu]]

\* mutant: the tag taken from the source is not replaced by the empty string
ApplyMigrate_LeavesNone(st, from, to, time) ==
    LET s1 == [st EXCEPT ![to].time = time]
        s2 == [s1 EXCEPT ![to].state = s1[from].state]
        s3 == [s2 EXCEPT ![to].tag = s2[from].tag, ![from].tag = None]
        s4 == [s3 EXCEPT ![from].time = time]
    IN  [s4 EXCEPT ![from].state = Idle]

\* mutant: the whole source slot is moved, entity included
ApplyMigrate_WholeSlot(st, from, to, time) ==
    [st EXCEPT ![to] = [st[from] EXCEPT !.time = time],
               ![from] = [st[from] EXCEPT !.time = time, !.state = Idle,
                                          !.tag = Some(<<>>)]]

\* Event::Migrate arm after the assertion, statement by statement
ApplyMigrate(st, from, to, time) ==
    LET s1 == [st EXCEPT ![to].time = time]
        s2 == [s1 EXCEPT ![to].state = s1[from].state]
        s3 == [s2 EXCEPT ![to].tag = s2[from].tag, ![from].tag = None]
        s4 == [s3 EXCEPT ![from].time = time]
        s5 == [s4 EXCEPT ![from].state = Idle]
    IN  [s5 EXCEPT ![from].tag = Some(<<>>)]

\* mutant: the time of the slot is not updated
SetTime_Forgotten(st, cpu, time) == st

\* states[cpu as usize].time = time
SetTime(st, cpu, time) == [st EXCEPT ![cpu].time = time]

\* mutant: an End writes no line
EmitLines_SkipsEnd(st, cpu, event) ==
    IF event.kind = "End" THEN <<>> ELSE <<SerializeDatum(st[cpu])>>

\* the lines the sample writes: serde_json::to_writer + writeln
EmitLines(st, cpu, event) == <<SerializeDatum(st[cpu])>>

\* history only: the CPUs whose pre-BeginOther snapshots an event discards
HistAfter(h, st, cpu, event) ==
    CASE event.kind = "BeginThread" -> [h EXCEPT ![cpu] = <<>>]
      [] event.kind = "BeginOther" ->
            [h EXCEPT ![cpu] = Append(h[cpu], [state |-> st[cpu].state,
                                               tag |-> st[cpu].tag])]
      [] event.kind = "End" -> h
      [] event.kind = "Migrate" ->
            [c \in Cpus |-> IF c \in {event.from, event.to} THEN <<>> ELSE h[c]]

\* mutant: a Migrate takes the saved slot of the source along
ApplyEvent_MigrateSaves(st, prev, cpu, time, event) ==
    CASE event.kind = "BeginThread" ->
            [states |-> ApplyBeginThread(st, cpu, event.state, event.comm, event.pid),
             prev_states |-> prev]
      [] event.kind = "BeginOther" ->
            [states |-> ApplyBeginOther(st, cpu, event.state, event.tag),
             prev_states |-> SaveSlot(prev, st, cpu)]
      [] event.kind = "End" ->
            [states |-> ApplyEnd(st, prev, cpu), prev_states |-> prev]
      [] event.kind = "Migrate" ->
            [states |-> ApplyMigrate(st, event.from, event.to, time),
             prev_states |->
                [prev EXCEPT ![event.to] = prev[event.from],
                             ![event.from] = NewDatum(event.from)]]

\* the match on `event`: the slots after the arm that is taken
ApplyEvent(st, prev, cpu, time, event) ==
    CASE event.kind = "BeginThread" ->
            [states |-> ApplyBeginThread(st, cpu, event.state, event.comm, event.pid),
             prev_states |-> prev]
      [] event.kind = "BeginOther" ->
            [states |-> ApplyBeginOther(st, cpu, event.state, event.tag),
             prev_states |-> SaveSlot(prev, st, cpu)]
      [] event.kind = "End" ->
            [states |-> ApplyEnd(st, prev, cpu), prev_states |-> prev]
      [] event.kind = "Migrate" ->
            [states |-> ApplyMigrate(st, event.from, event.to, time),
             prev_states |-> prev]

\* mutant: the assertion is missing
MigratePanics_Never(event) == FALSE

\* assert!(from != to, "Cannot migrate to the same CPU")
MigratePanics(event) == event.kind = "Migrate" /\ event.from = event.to

-----------------------------------------------------------------------------
(* main: one iteration of the record loop                                  *)

MoreRecords == pc = "loop" /\ nrec < MaxRecords

SkippedTypes == {"MMAP", "MMAP2", "KSYMBOL", "FORK", "EXIT", "COMM"}
LostTypes == {"LOST", "LOST_SAMPLES"}
OtherTypes == {"THROTTLE", "SWITCH"}

\* RecordType::MMAP | MMAP2 | KSYMBOL and FORK | EXIT | COMM: empty arms
SkippedRecord(record_type) ==
    /\ MoreRecords
    /\ record_type \in SkippedTypes
    /\ nrec' = nrec + 1
    /\ last' = NoSample
    /\ UNCHANGED <<pc, states, prev_states, output, action_map, start_time, ctr,
                   clock, hist, entered, call, ret>>

\* mutant: a LOST record ends the run
LostRecord_Aborts(record_type) ==
    /\ MoreRecords
    /\ record_type \in LostTypes
    /\ nrec' = nrec + 1
    /\ last' = NoSample
    /\ pc' = "aborted"
    /\ UNCHANGED <<states, prev_states, output, action_map, start_time, ctr,
                   clock, hist, entered, call, ret>>

\* RecordType::LOST | LOST_SAMPLES: log::warn!
LostRecord(record_type) ==
    /\ MoreRecords
    /\ record_type \in LostTypes
    /\ nrec' = nrec + 1
    /\ last' = NoSample
    /\ UNCHANGED <<pc, states, prev_states, output, action_map, start_time, ctr,
                   clock, hist, entered, call, ret>>

\* any other record type: log::warn!("Unhandled record type")
UnhandledRecord(record_type) ==
    /\ MoreRecords
    /\ record_type \in OtherTypes
    /\ nrec' = nrec + 1
    /\ last' = NoSample
    /\ UNCHANGED <<pc, states, prev_states, output, action_map, start_time, ctr,
                   clock, hist, entered, call, ret>>

\* PerfFileRecord::UserRecord: empty arm
UserRecord ==
    /\ MoreRecords
    /\ nrec' = nrec + 1
    /\ last' = NoSample
    /\ UNCHANGED <<pc, states, prev_states, output, action_map, start_time, ctr,
                   clock, hist, entered, call, ret>>

\* RecordType::SAMPLE whose action is Ignore: ctr += 1; continue
SampleIgnored(attr_index) ==
    /\ MoreRecords
    /\ action_map[attr_index] = "Ignore"
    /\ nrec' = nrec + 1
    /\ ctr' = ctr + 1
    /\ clock' = clock + SampleSpacing
    /\ last' = [kind |-> "ignored"]
    /\ UNCHANGED <<pc, states, prev_states, output, action_map, start_time, hist,
                   entered, call, ret>>

\* mutant: the decode error is dropped and the loop goes on
SampleDecodeFails_Continues(attr_index, raw) ==
    /\ MoreRecords
    /\ action_map[attr_index] # "Ignore"
    /\ IF raw = NoRawData THEN TRUE ELSE ~Parse(action_map[attr_index], raw).ok
    /\ nrec' = nrec + 1
    /\ ctr' = ctr + 1
    /\ clock' = clock + SampleSpacing
    /\ last' = [kind |-> "error"]
    /\ UNCHANGED <<pc, states, prev_states, output, action_map, start_time, hist,
                   entered, call, ret>>

\* RecordType::SAMPLE whose raw data is missing or does not decode: the `?`
\* after Event::parse returns the error from main
SampleDecodeFails(attr_index, raw) ==
    /\ MoreRecords
    /\ action_map[attr_index] # "Ignore"
    /\ IF raw = NoRawData THEN TRUE ELSE ~Parse(action_map[attr_index], raw).ok
    /\ nrec' = nrec + 1
    /\ ctr' = ctr + 1
    /\ clock' = clock + SampleSpacing
    /\ pc' = "aborted"
    /\ last' = [kind |-> "error"]
    /\ UNCHANGED <<states, prev_states, output, action_map, start_time, hist,
                   entered, call, ret>>

\* RecordType::SAMPLE decoded to a Migrate whose assertion fails
SamplePanics(attr_index, cpu, raw) ==
    /\ MoreRecords
    /\ action_map[attr_index] # "Ignore"
    /\ raw # NoRawData
    /\ Parse(action_map[attr_index], raw).ok
    /\ LET event == Parse(action_map[attr_index], raw).event
       IN  /\ MigratePanics(event)
           /\ last' = [kind |-> "panic", event |-> event]
    /\ nrec' = nrec + 1
    /\ ctr' = ctr + 1
    /\ clock' = clock + SampleSpacing
    /\ pc' = "aborted"
    /\ UNCHANGED <<states, prev_states, output, action_map, start_time, hist,
                   entered, call, ret>>

\* the loop body for a SAMPLE that is decoded and applied: the match on the
\* event, the time of states[cpu], and the line written
SampleBody(attr_index, cpu, raw) ==
    /\ action_map[attr_index] # "Ignore"
    /\ raw # NoRawData
    /\ Parse(action_map[attr_index], raw).ok
    /\ LET event == Parse(action_map[attr_index], raw).event
           time == clock - start_time
           applied == ApplyEvent(states, prev_states, cpu, time, event)
           timed == SetTime(applied.states, cpu, time)
       IN  /\ ~MigratePanics(event)
           /\ states' = timed
           /\ prev_states' = applied.prev_states
           /\ output' = output \o EmitLines(timed, cpu, event)
           /\ hist' = HistAfter(hist, states, cpu, event)
           /\ entered' = IF event.kind = "BeginOther" THEN entered \cup {cpu}
                         ELSE entered
           /\ last' = [kind |-> event.kind, cpu |-> cpu, time |-> time,
                       event |-> event]
    /\ nrec' = nrec + 1
    /\ ctr' = ctr + 1
    /\ clock' = clock + SampleSpacing
    /\ UNCHANGED <<pc, action_map, start_time, call, ret>>

\* RecordType::SAMPLE decoded and applied
SampleApplied(attr_index, cpu, raw) ==
    /\ MoreRecords
    /\ SampleBody(attr_index, cpu, raw)

\* the payloads a sample of the attribute can carry
PayloadsOf(attr_index) == Payloads(ActionOfName(EventAttributes[attr_index + 1]))

Next ==
    \/ \E clock_data \in ClockDataOptions : Startup(clock_data)
    \/ \E record_type \in SkippedTypes : SkippedRecord(record_type)
    \/ \E record_type \in LostTypes : LostRecord(record_type)
    \/ \E record_type \in OtherTypes : UnhandledRecord(record_type)
    \/ UserRecord
    \/ \E attr_index \in AttrIndexes : SampleIgnored(attr_index)
    \/ \E attr_index \in AttrIndexes :
          \E raw \in PayloadsOf(attr_index) \cup {NoRawData} :
              SampleDecodeFails(attr_index, raw)
    \/ \E attr_index \in AttrIndexes, cpu \in Cpus :
          \E raw \in PayloadsOf(attr_index) : SamplePanics(attr_index, cpu, raw)
    \/ \E attr_index \in AttrIndexes, cpu \in Cpus :
          \E raw \in PayloadsOf(attr_index) : SampleApplied(attr_index, cpu, raw)

Spec == Init /\ [][Next]_vars

-----------------------------------------------------------------------------
(* A longer capture of interrupts over threads: every sample is a          *)
(* sched_switch, an irq_handler_entry/exit or a softirq_entry/exit that    *)
(* decodes.  It is replayed by the same loop body.                         *)

\* number of records of the longer capture
MaxNestedRecords == 4

NestedNames ==
    {"sched:sched_switch", "irq:irq_handler_entry", "irq:irq_handler_exit",
     "irq:softirq_entry", "irq:softirq_exit"}

NestedAttrIndexes == {i \in AttrIndexes : EventAttributes[i + 1] \in NestedNames}

NestedPayloads(attr_index) ==
    {raw \in PayloadsOf(attr_index) :
        Parse(ActionOfName(EventAttributes[attr_index + 1]), raw).ok}

\* RecordType::SAMPLE of the longer capture, decoded and applied
NestedSample(attr_index, cpu, raw) ==
    /\ pc = "loop"
    /\ nrec < MaxNestedRecords
    /\ SampleBody(attr_index, cpu, raw)

NextNested ==
    \/ \E clock_data \in ClockDataOptions : Startup(clock_data)
    \/ \E attr_index \in NestedAttrIndexes, cpu \in Cpus :
          \E raw \in NestedPayloads(attr_index) : NestedSample(attr_index, cpu, raw)

SpecNested == Init /\ [][NextNested]_vars

-----------------------------------------------------------------------------
(* A capture of a thread that is migrated inside an interrupt: every       *)
(* sample is the sched_switch to bash:42, the irq_handler_entry of eth0,   *)
(* an irq_handler_exit or the sched_migrate_task from CPU 0 to CPU 1.      *)

\* number of records of the migration capture
MaxMigrateRecords == 5

\* its samples: the index of the attribute and the payload
MigrateSamples ==
    {<<0, [len |-> SwitchBytes, next_comm |-> CommField(S_bash), next_pid |-> 42]>>,
     <<1, [len |-> MigrateBytes, orig_cpu |-> 0, dest_cpu |-> 1]>>,
     <<2, [len |-> EnterIrqBytes + 5, irq |-> 7,
           name_ptr |-> DataLoc(EnterIrqBytes, 5), rest |-> S_eth0 \o <<NUL>>]>>,
     <<3, [len |-> 0]>>}

\* RecordType::SAMPLE of the migration capture, decoded and applied
MigrateSample(attr_index, cpu, raw) ==
    /\ pc = "loop"
    /\ nrec < MaxMigrateRecords
    /\ SampleBody(attr_index, cpu, raw)

NextMigrate ==
    \/ \E clock_data \in ClockDataOptions : Startup(clock_data)
    \/ \E sample \in MigrateSamples, cpu \in Cpus :
          MigrateSample(sample[1], cpu, sample[2])

SpecMigrate == Init /\ [][NextMigrate]_vars

-----------------------------------------------------------------------------
(* The functions called on their own: `call` holds the function and its    *)
(* arguments, drawn from the sets below, `ret` the value it returned.      *)

mainvars == <<pc, states, prev_states, output, action_map, start_time, ctr,
              nrec, clock, last, hist, entered>>

Returns(fn, value) == [fn |-> fn, val |-> value]

\* the sequences over S of length at most n
SeqsUpTo(S, n) == UNION {[1..k -> S] : k \in 0..n}

\* number of event attributes of the perf file in a call of action_mapping
MaxAttrs == 2

\* entry.name() is None
NoName == "(no name)"

\* the names action_mapping lists
MappedNames ==
    {"irq:irq_handler_entry", "irq:irq_handler_exit", "irq:softirq_entry",
     "irq:softirq_exit", "irq:tasklet_entry", "irq:tasklet_exit",
     "sched:sched_migrate_task", "sched:sched_switch"}
IgnoredNames ==
    {"sched:sched_process_fork", "sched:sched_stat_iowait",
     "sched:sched_stat_runtime", "sched:sched_stat_sleep",
     "sched:sched_stat_wait", "sched:sched_wakeup_new", "sched:sched_wakeup",
     "sched:sched_waking", "dummy:u"}
\* names of the `_` arm
UnknownNames == {"power:cpu_idle", "irq:irq_handler_entry2", ""}

AttrNames == MappedNames \cup IgnoredNames \cup UnknownNames \cup {NoName}

ActionMappingCalls ==
    {[fn |-> "action_mapping", attrs |-> attrs] : attrs \in SeqsUpTo(AttrNames, MaxAttrs)}

\* action_mapping with the `?` on entry.name()
ActionMappingOrErr(attrs) ==
    IF \E i \in 1..Len(attrs) : attrs[i] = NoName
    THEN [ok |-> FALSE]
    ELSE [ok |-> TRUE, map |-> ActionMapping(attrs)]

\* softirq vectors 0..MaxVec in the calls of the decoder
MaxVec == 10

S_ksoftirqd2 == S_ksoftirqd \o <<"2">>
S_rcu_preempt == S_rcu \o <<"p", "r", "e", "e", "m", "p", "t">>
S_kworker01 == S_kworker \o <<"0", ":", "1">>
\* a comm that is not valid UTF-8
S_invalid == <<"b", BadByte, "d">>

\* char[TASK_COMM_LEN] fields: NUL padded, or with old bytes after the NUL
CommFields ==
    {CommField(S_ksoftirqd2), CommField(S_rcu_preempt), CommField(S_invalid),
     CommField(<<>>), S_kworker01 \o <<NUL, "x", "x", "x", "x">>}

\* next_pid values
Pids == {0, 42, 4194304}

\* irq numbers (i32) and the addresses of tasklets (u64)
IrqNumbers == {-1, 0, 130}
TaskletPointers == {0, 9, 10, 15, 16, 255, 256, 48879, 2147483647}

\* irq_handler_entry names: the bytes after the pointer, and the pointer
IrqNames ==
    {[name_ptr |-> DataLoc(EnterIrqBytes, 5), rest |-> S_eth0 \o <<NUL>>],
     [name_ptr |-> DataLoc(EnterIrqBytes + 2, 4),
      rest |-> <<"x", NUL>> \o S_invalid \o <<NUL>>],
     [name_ptr |-> DataLoc(EnterIrqBytes, 5),
      rest |-> <<"e", "t", NUL, "h", NUL>>]}

\* the payloads Event::parse_impl is called with on its own
DecoderPayloads(action) ==
    CASE action = "Switch" ->
            SwitchPayloads \cup
            {[len |-> SwitchBytes, next_comm |-> field, next_pid |-> pid] :
                field \in CommFields, pid \in Pids}
      [] action = "Migrate" ->
            MigratePayloads \cup
            {[len |-> MigrateBytes, orig_cpu |-> from, dest_cpu |-> to] :
                from \in 0..NumCpus, to \in 0..NumCpus}
      [] action = "EnterIrq" ->
            EnterIrqPayloads \cup
            {[len |-> EnterIrqBytes + Len(name.rest), irq |-> irq,
              name_ptr |-> name.name_ptr, rest |-> name.rest] :
                irq \in IrqNumbers, name \in IrqNames}
      [] action = "EnterSoftirq" ->
            EnterSoftirqPayloads \cup
            {[len |-> EnterSoftirqBytes, vec |-> vec] : vec \in 0..MaxVec}
      [] action = "EnterTasklet" ->
            EnterTaskletPayloads \cup
            {[len |-> EnterTaskletBytes, tasklet |-> tasklet] :
                tasklet \in TaskletPointers}
      [] OTHER -> ExitPayloads \cup {[len |-> EnterSoftirqBytes]}

ParseImplCalls ==
    {[fn |-> "parse_impl", action |-> c[1], data |-> c[2]] :
        c \in UNION {{<<action, data>> : data \in DecoderPayloads(action)} :
                        action \in DecodableActions}}

\* the comms Event::classify is called with: the text of every rule cut at
\* every length, followed by nothing, a digit, a name, the text of another
\* rule or bytes that are not UTF-8
ClassifyCalls ==
    {[fn |-> "classify", comm |-> comm] :
        comm \in {S_ksoftirqd2, S_rcu_preempt, S_kworker01} \cup
                 UNION {{SubSeq(rule, 1, k) \o tail :
                            k \in 0..Len(rule),
                            tail \in {<<>>, <<"0">>, S_bash, S_irq, S_invalid}} :
                        rule \in {S_swapper, S_migration, S_ksoftirqd, S_irq,
                                   S_kworker, S_rcu}}}

-----------------------------------------------------------------------------
(* tracepoints/parser.rs: ParseOp::get_bytes and FormatParser::parse_array. *)
(* A record is the sequence of its bytes (0..255).  A u32 is kept as its   *)
(* two 16-bit halves [hi, lo], so that every u32 up to 2^32 - 1 is a value *)
(* of the model; a record is shorter than 2^16 bytes.                      *)

U32(hi, lo) == [hi |-> hi, lo |-> lo]
U32Max == U32(65535, 65535)

\* u32 + u32: the sum modulo 2^32, and whether the addition overflowed
AddU32(a, b) ==
    LET lo == a.lo + b.lo
        hi == a.hi + b.hi + (lo \div 65536)
    IN  [overflow |-> hi >= 65536, sum |-> U32(hi % 65536, lo % 65536)]

LeqU32(a, b) == a.hi < b.hi \/ (a.hi = b.hi /\ a.lo <= b.lo)

\* Ok(bytes), Err(UnexpectedEof, "Not enough data"), and a panic
OkBytes(bytes) == [outcome |-> "Ok", bytes |-> bytes]
UnexpectedEof == [outcome |-> "UnexpectedEof", bytes |-> <<>>]
Panicked == [outcome |-> "panic", bytes |-> <<>>]

\* record.get(start..end).ok_or_else(UnexpectedEof), start and end `as usize`
GetRange(record, start, end) ==
    IF LeqU32(start, end) /\ LeqU32(end, U32(0, Len(record)))
    THEN OkBytes(SubSeq(record, start.lo + 1, end.lo))
    ELSE UnexpectedEof

\* ParseOp::get_bytes: self.offset + self.size is a u32 addition, which
\* panics in a build with overflow checks and wraps in one without
GetBytes(op, record, overflow_checks) ==
    LET end == AddU32(op.offset, op.size)
    IN  IF end.overflow /\ overflow_checks THEN Panicked
        ELSE GetRange(record, op.offset, end.sum)

\* ParseOp::get_bytes_range, for an offset inside the record
GetBytesRange(op, record, length) ==
    GetRange(record, op.offset, U32(0, op.offset.lo + length))

\* mutant: the byte order asked for is not used
ReadU32_AlwaysLittle(bytes, order) ==
    U32(bytes[4] * 256 + bytes[3], bytes[2] * 256 + bytes[1])

\* O::read_u32
ReadU32(bytes, order) ==
    IF order = "LittleEndian"
    THEN U32(bytes[4] * 256 + bytes[3], bytes[2] * 256 + bytes[1])
    ELSE U32(bytes[1] * 256 + bytes[2], bytes[3] * 256 + bytes[4])

\* FormatParser::parse_array
ParseArray(op, record, order, overflow_checks) ==
    CASE op.array_type = "None" ->
            Panicked    \* unreachable!("Expected an array type for a string field")
      [] op.array_type = "Fixed" -> GetBytes(op, record, overflow_checks)
      [] op.array_type = "Trailing" ->
            \* record.len() - op.offset as usize is a usize subtraction
            IF LeqU32(op.offset, U32(0, Len(record)))
            THEN GetBytesRange(op, record, Len(record) - op.offset.lo)
            ELSE IF overflow_checks THEN Panicked
            \* wrapped, offset + length is record.len() again: the range
            \* offset..record.len() starts after its end
            ELSE GetRange(record, op.offset, U32(0, Len(record)))
      [] op.array_type = "DataLoc4" ->
            LET field == GetBytes(op, record, overflow_checks)
            IN  IF field.outcome # "Ok" THEN field
                ELSE LET ptr == ReadU32(field.bytes, order)
                         len == U32(0, ptr.hi)       \* ptr >> 16
                         start == U32(0, ptr.lo)     \* ptr & 0xFFFF
                     IN  GetRange(record, start, AddU32(start, len).sum)

\* the fields of the calls: offsets 0..MaxFieldOffset, sizes 0..MaxFieldSize
MaxFieldOffset == 9
MaxFieldSize == 5

\* a record of len bytes, each byte telling its position
RecordBytes(len) == [i \in 1..len |-> ((i - 1) * 37 + 11) % 256]
RecordLens == {0, 3, 8, 24, 26}

ByteOrders == {"LittleEndian", "BigEndian"}

\* the record with the __data_loc pointer ptr written at offset 4
WithPointer(record, ptr, order) ==
    LET little == <<ptr.lo % 256, ptr.lo \div 256, ptr.hi % 256, ptr.hi \div 256>>
    IN  [i \in 1..Len(record) |->
            IF i \in 5..8
            THEN IF order = "LittleEndian" THEN little[i - 4] ELSE little[9 - i]
            ELSE record[i]]

\* __data_loc pointers: length in the upper half, record offset in the lower
Pointers ==
    {U32(16, 8), U32(0, 0), U32(4, 22), U32(8, 20), U32(1, 26), U32(0, 26), U32Max}

\* ParseOps as TracepointField::parse derives them: DataLoc4 has size 4,
\* Trailing has size 0
ScalarOps ==
    {[offset |-> offset, size |-> U32(0, size), array_type |-> array_type] :
        offset \in {U32(0, k) : k \in 0..MaxFieldOffset} \cup {U32Max},
        size \in 0..MaxFieldSize,
        array_type \in {"None", "Fixed"}}
TrailingOps ==
    {[offset |-> U32(0, k), size |-> U32(0, 0), array_type |-> "Trailing"] :
        k \in 0..MaxFieldOffset}
DataLocOps ==
    {[offset |-> U32(0, k), size |-> U32(0, 4), array_type |-> "DataLoc4"] :
        k \in {0, 4}}

GetBytesCalls ==
    {[fn |-> "get_bytes", op |-> op, record |-> RecordBytes(len),
      overflow_checks |-> checks] :
        op \in ScalarOps, len \in RecordLens, checks \in BOOLEAN}

ParseArrayCalls ==
    {[fn |-> "parse_array", op |-> op, record |-> RecordBytes(len),
      order |-> "LittleEndian", overflow_checks |-> checks] :
        op \in ScalarOps \cup TrailingOps, len \in RecordLens, checks \in BOOLEAN}
    \cup
    {[fn |-> "parse_array", op |-> op,
      record |-> WithPointer(RecordBytes(len), ptr, written),
      order |-> order, overflow_checks |-> checks] :
        op \in DataLocOps, len \in RecordLens, ptr \in Pointers,
        written \in ByteOrders, order \in ByteOrders, checks \in BOOLEAN}

\* size_of the integer types of scalar_parser! and byte_parser!
SizeOf(ty) ==
    CASE ty \in {"i8", "u8"} -> 1
      [] ty \in {"i16", "u16"} -> 2
      [] ty \in {"i32", "u32"} -> 4
      [] OTHER -> 8

\* O::read_<ty>(data) and `data[0] as <ty>`: the first size_of bytes of data,
\* in the byte order O.  An integer of type ty is kept as its size_of bytes,
\* the most significant first (an i64 or u64 is wider than the integers of
\* TLC).
ReadInt(ty, data, order) ==
    [k \in 1..SizeOf(ty) |->
        IF order = "LittleEndian" THEN data[SizeOf(ty) + 1 - k] ELSE data[k]]

\* FormatParser::parse_<ty>.  The debug_assert! is compiled in a build with
\* debug assertions only; without it, data shorter than the type makes
\* read_<ty> (or data[0]) index out of bounds.
ParseScalar(ty, op, record, order, debug_assertions, overflow_checks) ==
    IF /\ debug_assertions
       /\ ~(/\ op.size = U32(0, SizeOf(ty))
            /\ op.array_type = "None"
            /\ op.signed)
    THEN Panicked       \* "Tracepoint format mismatch"
    ELSE LET data == GetBytes(op, record, overflow_checks)
         IN  IF data.outcome # "Ok" THEN data
             ELSE IF Len(data.bytes) < SizeOf(ty) THEN Panicked
             ELSE [outcome |-> "Ok", ty |-> ty,
                   digits |-> ReadInt(ty, data.bytes, order)]

\* the calls of the scalar parsers: every integer type, on fields signed or
\* not, in a build of the dev profile (debug assertions and overflow checks)
\* or of the release profile (neither)
ParseScalarCalls ==
    {[fn |-> "parse_scalar", ty |-> ty, op |-> op, record |-> RecordBytes(len),
      order |-> order, debug_assertions |-> dev, overflow_checks |-> dev] :
        ty \in {"i8", "u8", "i16", "u16", "i32", "u32", "i64", "u64"},
        op \in {[offset |-> U32(0, offset), size |-> U32(0, size),
                 signed |-> signed, array_type |-> array_type] :
                    offset \in {0, 2, 8}, size \in {0, 1, 2, 4, 8},
                    signed \in BOOLEAN, array_type \in {"None", "Fixed"}},
        len \in {0, 8, 24}, order \in ByteOrders, dev \in BOOLEAN}

-----------------------------------------------------------------------------
(* tracepoints/format.rs: the parser of a tracepoint format file.  A text  *)
(* is the sequence of its characters.                                       *)

\* str.split(sep): the pieces between the occurrences of sep
RECURSIVE Split(_, _)
Split(s, sep) ==
    IF \A i \in 1..Len(s) : s[i] # sep THEN <<s>>
    ELSE LET i == CHOOSE i \in 1..Len(s) :
                      s[i] = sep /\ \A j \in 1..(i - 1) : s[j] # sep
         IN  <<SubSeq(s, 1, i - 1)>> \o Split(SubSeq(s, i + 1, Len(s)), sep)

\* str.split_once(sep): the text before and after the first sep, or None
SplitOnce(s, sep) ==
    IF \A i \in 1..Len(s) : s[i] # sep THEN [found |-> FALSE]
    ELSE LET i == CHOOSE i \in 1..Len(s) :
                      s[i] = sep /\ \A j \in 1..(i - 1) : s[j] # sep
         IN  [found |-> TRUE, name |-> SubSeq(s, 1, i - 1),
              value |-> SubSeq(s, i + 1, Len(s))]

\* mutant: a value that is no u32 is read as 0
ParseU32_DefaultsToZero(s) == [ok |-> TRUE, value |-> U32(0, 0)]

\* str::parse::<u32>: an optional "+", then one or more decimal digits whose
\* value is at most 2^32 - 1
ParseU32(s) ==
    LET digits == IF Len(s) >= 1 /\ s[1] = "+" THEN Tail(s) ELSE s
        IsDigit(ch) == \E d \in 0..9 : DecDigits[d + 1] = ch
        Digit(ch) == CHOOSE d \in 0..9 : DecDigits[d + 1] = ch
        \* acc * 10 + d on the two halves; hi >= 65536 is an overflow
        RECURSIVE Value(_, _)
        Value(acc, i) ==
            IF i > Len(digits) \/ acc.hi >= 65536 THEN acc
            ELSE LET lo == acc.lo * 10 + Digit(digits[i])
                 IN  Value(U32(acc.hi * 10 + lo \div 65536, lo % 65536), i + 1)
        v == Value(U32(0, 0), 1)
    IN  IF digits = <<>> \/ \E i \in 1..Len(digits) : ~IsDigit(digits[i])
        THEN [ok |-> FALSE]
        ELSE IF v.hi >= 65536 THEN [ok |-> FALSE]
        ELSE [ok |-> TRUE, value |-> v]

\* str.ends_with(suffix)
EndsWith(s, suffix) ==
    /\ Len(suffix) <= Len(s)
    /\ SubSeq(s, Len(s) - Len(suffix) + 1, Len(s)) = suffix

\* FIXED_REGEX.is_match: \[[0-9]+\]$
FixedRegexIsMatch(s) ==
    \E i \in 1..Len(s) :
        /\ s[i] = "["
        /\ i + 1 < Len(s)
        /\ s[Len(s)] = "]"
        /\ \A j \in (i + 1)..(Len(s) - 1) : \E d \in 0..9 : DecDigits[d + 1] = s[j]

\* mutant: the rule of the fixed arrays is tried first
ArrayTypeOf_FixedFirst(field_type, size) ==
    IF FixedRegexIsMatch(field_type) THEN "Fixed"
    ELSE IF StartsWith(field_type, <<"_", "_", "d", "a", "t", "a", "_", "l", "o", "c">>) /\ size = U32(0, 4)
    THEN "DataLoc4"
    ELSE IF EndsWith(field_type, <<"[", "]">>) /\ size = U32(0, 0) THEN "Trailing"
    ELSE "None"

\* TracepointField::parse: the array type of the field
ArrayTypeOf(field_type, size) ==
    IF StartsWith(field_type, <<"_", "_", "d", "a", "t", "a", "_", "l", "o", "c">>) /\ size = U32(0, 4)
    THEN "DataLoc4"
    ELSE IF EndsWith(field_type, <<"[", "]">>) /\ size = U32(0, 0) THEN "Trailing"
    ELSE IF FixedRegexIsMatch(field_type) THEN "Fixed"
    ELSE "None"

\* Err(TracepointFormatError::ParseError(..))
ParseError == [ok |-> FALSE]

\* TracepointField::parse of a line of the format section
TracepointFieldParse(line) ==
    LET parts == Split(Tail(line), "\t")
        \* the index of the last ch of s, 0 for None
        RFind(s, ch) ==
            IF \A i \in 1..Len(s) : s[i] # ch THEN 0
            ELSE CHOOSE i \in 1..Len(s) :
                     s[i] = ch /\ \A j \in (i + 1)..Len(s) : s[j] # ch
        start == [ok |-> TRUE, typed |-> FALSE, field_type |-> <<>>,
                  field_name |-> <<>>, offset |-> U32(0, 0),
                  size |-> U32(0, 0), signed |-> FALSE]
        \* the body of `for field in parts`
        Step(acc, part) ==
            LET field == IF EndsWith(part, <<";">>)
                         THEN SubSeq(part, 1, Len(part) - 1) ELSE part
                kv == SplitOnce(field, ":")
            IN  IF ~kv.found THEN ParseError
                ELSE CASE kv.name = <<"f", "i", "e", "l", "d">> ->
                            LET last_space == RFind(kv.value, " ")
                                ftype == SubSeq(kv.value, 1, last_space - 1)
                                fname == SubSeq(kv.value, last_space + 1,
                                                Len(kv.value))
                                idx == RFind(fname, "[")
                            IN  IF last_space = 0 THEN ParseError
                                ELSE IF idx = 0
                                THEN [acc EXCEPT !.typed = TRUE,
                                                 !.field_type = ftype,
                                                 !.field_name = fname]
                                ELSE [acc EXCEPT
                                        !.typed = TRUE,
                                        !.field_type =
                                            ftype \o SubSeq(fname, idx, Len(fname)),
                                        !.field_name = SubSeq(fname, 1, idx - 1)]
                       [] kv.name = <<"o", "f", "f", "s", "e", "t">> ->
                            IF ParseU32(kv.value).ok
                            THEN [acc EXCEPT !.offset = ParseU32(kv.value).value]
                            ELSE ParseError
                       [] kv.name = <<"s", "i", "z", "e">> ->
                            IF ParseU32(kv.value).ok
                            THEN [acc EXCEPT !.size = ParseU32(kv.value).value]
                            ELSE ParseError
                       [] kv.name = <<"s", "i", "g", "n", "e", "d">> ->
                            IF kv.value = <<"1">> THEN [acc EXCEPT !.signed = TRUE]
                            ELSE IF kv.value = <<"0">>
                            THEN [acc EXCEPT !.signed = FALSE]
                            ELSE ParseError
                       [] OTHER -> ParseError
        RECURSIVE Fold(_, _)
        Fold(acc, i) ==
            IF i > Len(parts) \/ ~acc.ok THEN acc
            ELSE Fold(Step(acc, parts[i]), i + 1)
        parsed == Fold(start, 1)
    IN  IF Len(parts) # 4 THEN ParseError
        ELSE IF ~parsed.ok THEN ParseError
        ELSE IF ~parsed.typed THEN ParseError     \* "Missing field type"
        ELSE [ok |-> TRUE,
              field |-> [field_type |-> parsed.field_type,
                         field_name |-> parsed.field_name,
                         offset |-> parsed.offset,
                         size |-> parsed.size,
                         signed |-> parsed.signed,
                         array_type |-> ArrayTypeOf(parsed.field_type,
                                                    parsed.size)]]

\* TracepointFormat::parse
TracepointFormatParse(text) ==
    LET lines == Split(text, "\n")
        start == [ok |-> TRUE, mode |-> "Normal", name |-> <<>>,
                  id |-> U32(0, 0), print_fmt |-> <<>>, fields |-> <<>>]
        \* a line outside the format section
        TopLevel(acc, line) ==
            LET kv == SplitOnce(line, ":")
                value == IF kv.value # <<>> /\ kv.value[1] = " "
                         THEN Tail(kv.value) ELSE kv.value
            IN  IF ~kv.found THEN ParseError
                ELSE CASE kv.name = <<"n", "a", "m", "e">> ->
                            [acc EXCEPT !.mode = "Normal",
                                        !.name = acc.name \o value]
                       [] kv.name = <<"I", "D">> ->
                            IF ParseU32(value).ok
                            THEN [acc EXCEPT !.mode = "Normal",
                                             !.id = ParseU32(value).value]
                            ELSE ParseError
                       [] kv.name = <<"f", "o", "r", "m", "a", "t">> -> [acc EXCEPT !.mode = "Format"]
                       [] kv.name = <<"p", "r", "i", "n", "t", " ", "f", "m", "t">> ->
                            [acc EXCEPT !.mode = "Normal",
                                        !.print_fmt = acc.print_fmt \o value]
                       [] OTHER -> ParseError
        \* the body of `for line in lines.split('\n')`
        Step(acc, line) ==
            IF line = <<>> THEN acc
            ELSE IF acc.mode = "Format" /\ line[1] = "\t"
            THEN LET parsed == TracepointFieldParse(line)
                 IN  IF parsed.ok
                     THEN [acc EXCEPT !.fields = Append(acc.fields, parsed.field)]
                     ELSE ParseError
            ELSE TopLevel(acc, line)
        RECURSIVE Fold(_, _)
        Fold(acc, i) ==
            IF i > Len(lines) \/ ~acc.ok THEN acc
            ELSE Fold(Step(acc, lines[i]), i + 1)
        parsed == Fold(start, 1)
    IN  IF ~parsed.ok THEN ParseError
        ELSE [ok |-> TRUE, name |-> parsed.name, id |-> parsed.id,
              print_fmt |-> parsed.print_fmt, fields |-> parsed.fields]

\* number of field lines in the format files of the calls
MaxFieldLines == 2

\* lines of a format section: the text, and whether the line has one of the
\* defects of a field line (a value that is no u32, a `signed` that is
\* neither 0 nor 1, an unknown key, a number of subfields other than four)
FieldLines ==
    LET Line(decl, offset, size, signed) ==
            <<"\t", "f", "i", "e", "l", "d", ":">> \o decl \o <<";", "\t", "o", "f", "f", "s", "e", "t", ":">> \o offset \o <<";", "\t", "s", "i", "z", "e", ":">> \o size
            \o <<";", "\t", "s", "i", "g", "n", "e", "d", ":">> \o signed \o <<";">>
        Good(text) == [text |-> text, defect |-> FALSE, fields |-> 1]
        Bad(text) == [text |-> text, defect |-> TRUE, fields |-> 0]
    IN  {Good(Line(<<"i", "n", "t", " ", "c", "o", "m", "m", "o", "n", "_", "p", "i", "d">>, <<"4">>, <<"4">>, <<"1">>)),
         Good(Line(<<"u", "n", "s", "i", "g", "n", "e", "d", " ", "s", "h", "o", "r", "t", " ", "c", "o", "m", "m", "o", "n", "_", "t", "y", "p", "e">>, <<"0">>, <<"2">>, <<"0">>)),
         Good(Line(<<"_", "_", "d", "a", "t", "a", "_", "l", "o", "c", " ", "c", "h", "a", "r", "[", "]", " ", "n", "a", "m", "e">>, <<"1", "2">>, <<"4">>, <<"0">>)),
         Good(Line(<<"_", "_", "d", "a", "t", "a", "_", "l", "o", "c", " ", "c", "h", "a", "r", "[", "]", " ", "n", "a", "m", "e">>, <<"1", "2">>, <<"8">>, <<"0">>)),
         Good(Line(<<"_", "_", "d", "a", "t", "a", "_", "l", "o", "c", " ", "c", "h", "a", "r", "[", "4", "]", " ", "n", "a", "m", "e">>, <<"1", "2">>, <<"4">>, <<"0">>)),
         Good(Line(<<"c", "h", "a", "r", " ", "p", "r", "e", "v", "_", "c", "o", "m", "m", "[", "1", "6", "]">>, <<"8">>, <<"1", "6">>, <<"0">>)),
         Good(Line(<<"c", "h", "a", "r", " ", "p", "r", "e", "v", "_", "c", "o", "m", "m", "[", "1", "6", "]">>, <<"8">>, <<"0">>, <<"0">>)),
         Good(Line(<<"c", "h", "a", "r", " ", "b", "u", "f", "[", "]">>, <<"1", "6">>, <<"0">>, <<"0">>)),
         Good(Line(<<"c", "h", "a", "r", " ", "b", "u", "f", "[", "]">>, <<"1", "6">>, <<"4">>, <<"0">>)),
         Good(Line(<<"c", "h", "a", "r", " ", "b", "u", "f", "[", "x", "]">>, <<"6", "5", "5", "3", "6">>, <<"4", "2", "9", "4", "9", "6", "7", "2", "9", "5">>, <<"0">>)),
         Bad(Line(<<"i", "n", "t", " ", "c", "o", "m", "m", "o", "n", "_", "p", "i", "d">>, <<"-", "4">>, <<"4">>, <<"1">>)),
         Bad(Line(<<"i", "n", "t", " ", "c", "o", "m", "m", "o", "n", "_", "p", "i", "d">>, <<"4">>, <<"4", "2", "9", "4", "9", "6", "7", "2", "9", "6">>, <<"1">>)),
         Bad(Line(<<"i", "n", "t", " ", "c", "o", "m", "m", "o", "n", "_", "p", "i", "d">>, <<>>, <<"4">>, <<"1">>)),
         Bad(Line(<<"i", "n", "t", " ", "c", "o", "m", "m", "o", "n", "_", "p", "i", "d">>, <<"4">>, <<"4">>, <<"2">>)),
         Bad(Line(<<"i", "n", "t", " ", "c", "o", "m", "m", "o", "n", "_", "p", "i", "d">>, <<"4">>, <<"4">>, <<>>)),
         Bad(<<"\t", "f", "i", "e", "l", "d", ":", "i", "n", "t", " ", "c", "o", "m", "m", "o", "n", "_", "p", "i", "d", ";", "\t", "o", "f", "f", "s", "e", "t", ":", "4", ";", "\t", "l", "e", "n", "g", "t", "h", ":", "4", ";", "\t", "s", "i", "g", "n", "e", "d", ":", "1", ";">>),
         Bad(<<"\t", "f", "i", "e", "l", "d", ":", "i", "n", "t", " ", "c", "o", "m", "m", "o", "n", "_", "p", "i", "d", ";", "\t", "o", "f", "f", "s", "e", "t", ":", "4", ";", "\t", "s", "i", "z", "e", ":", "4", ";">>),
         Bad(<<"\t", "f", "i", "e", "l", "d", ":", "i", "n", "t", " ", "c", "o", "m", "m", "o", "n", "_", "p", "i", "d", ";", "\t", "o", "f", "f", "s", "e", "t", ":", "4", ";", "\t", "s", "i", "z", "e", ":", "4", ";", "\t", "s", "i", "g", "n", "e", "d", ":", "1", ";", "\t">>),
         Bad(<<"\t">>)}

\* the format files: name, ID, `format:`, up to two lines of fields and
\* `print fmt`; or name, a second line, `format:`, a field and a third line,
\* the two drawn from top-level lines with and without a defect (an unknown
\* key, no colon, an ID that is no u32).  The lines are joined by "\n".
FormatParseCalls ==
    LET TopLines ==
            {[text |-> <<"I", "D", ":", " ", "3", "0", "8">>, defect |-> FALSE, fields |-> 0],
             [text |-> <<"I", "D", ":", " ", "4", "2", "9", "4", "9", "6", "7", "2", "9", "6">>, defect |-> TRUE, fields |-> 0],
             [text |-> <<"I", "D", ":", " ", "0", "x", "1", "3", "4">>, defect |-> TRUE, fields |-> 0],
             [text |-> <<"p", "r", "i", "n", "t", " ", "f", "m", "t", ":", " ", "\"", "i", "r", "q", "=", "%", "d", " ", "n", "a", "m", "e", "=", "%", "s", "\"", ",", " ", "R", "E", "C", "-", ">", "i", "r", "q">>,
              defect |-> FALSE, fields |-> 0],
             [text |-> <<"f", "l", "a", "g", "s", ":", " ", "1">>, defect |-> TRUE, fields |-> 0],
             [text |-> <<"#", " ", "c", "o", "m", "m", "e", "n", "t">>, defect |-> TRUE, fields |-> 0],
             [text |-> <<>>, defect |-> FALSE, fields |-> 0]}
        Join(lines) ==
            LET RECURSIVE J(_)
                J(i) == IF i > Len(lines) THEN <<>>
                        ELSE lines[i].text \o <<"\n">> \o J(i + 1)
            IN  J(1)
        File(lines) ==
            [fn |-> "format_parse", text |-> Join(lines),
             defect |-> \E i \in 1..Len(lines) : lines[i].defect,
             has_id |-> \E i \in 1..Len(lines) : lines[i].text = <<"I", "D", ":", " ", "3", "0", "8">>,
             fields |-> Len(SelectSeq(lines, LAMBDA l : l.fields = 1))]
        name == [text |-> <<"n", "a", "m", "e", ":", " ", "i", "r", "q", "_", "h", "a", "n", "d", "l", "e", "r", "_", "e", "n", "t", "r", "y">>, defect |-> FALSE,
                 fields |-> 0]
        format == [text |-> <<"f", "o", "r", "m", "a", "t", ":">>, defect |-> FALSE, fields |-> 0]
        id == [text |-> <<"I", "D", ":", " ", "3", "0", "8">>, defect |-> FALSE, fields |-> 0]
        print == [text |-> <<"p", "r", "i", "n", "t", " ", "f", "m", "t", ":", " ", "\"", "i", "r", "q", "=", "%", "d", " ", "n", "a", "m", "e", "=", "%", "s", "\"", ",", " ", "R", "E", "C", "-", ">", "i", "r", "q">>,
                  defect |-> FALSE, fields |-> 0]
    IN  {File(<<name, id, format>> \o fields \o <<print>>) :
            fields \in SeqsUpTo(FieldLines, MaxFieldLines)}
        \cup
        {File(<<name, second, format, field, third>>) :
            second \in TopLines, third \in TopLines,
            field \in {f \in FieldLines : ~f.defect}}

-----------------------------------------------------------------------------
(* main.rs: the time origin of write_header in u64.  A u64 is kept as its  *)
(* four 16-bit limbs, the least significant first.                          *)

\* u64 + u64: the sum modulo 2^64, and whether the addition overflowed
U64Add(a, b) ==
    LET s1 == a[1] + b[1]
        s2 == a[2] + b[2] + s1 \div 65536
        s3 == a[3] + b[3] + s2 \div 65536
        s4 == a[4] + b[4] + s3 \div 65536
    IN  [overflow |-> s4 >= 65536,
         value |-> <<s1 % 65536, s2 % 65536, s3 % 65536, s4 % 65536>>]

\* u64 - u64: the difference modulo 2^64, and whether it overflowed
U64Sub(a, b) ==
    LET d1 == a[1] - b[1]
        d2 == a[2] - b[2] - (IF d1 < 0 THEN 1 ELSE 0)
        d3 == a[3] - b[3] - (IF d2 < 0 THEN 1 ELSE 0)
        d4 == a[4] - b[4] - (IF d3 < 0 THEN 1 ELSE 0)
    IN  [overflow |-> d4 < 0,
         value |-> <<d1 % 65536, d2 % 65536, d3 % 65536, d4 % 65536>>]

\* u64 / d and u64 % d for a divisor below 2^30: the division bit by bit,
\* from bit 63 down
U64DivRem(a, d) ==
    LET Bit(k) == (a[k \div 16 + 1] \div 2 ^ (k % 16)) % 2
        RECURSIVE Go(_, _, _)
        Go(k, rem, quot) ==
            IF k < 0 THEN [quot |-> quot, rem |-> rem]
            ELSE LET r == 2 * rem + Bit(k)
                 IN  IF r >= d
                     THEN Go(k - 1, r - d,
                             [quot EXCEPT ![k \div 16 + 1] = @ + 2 ^ (k % 16)])
                     ELSE Go(k - 1, r, quot)
    IN  Go(63, 0, <<0, 0, 0, 0>>)

\* write_header: `start` of the metadata.  The subtraction and the addition
\* panic on overflow in a build with overflow checks and wrap in one without.
HeaderStart(clock_data, first_sample_time, overflow_checks) ==
    IF ~clock_data.present
    THEN [outcome |-> "Ok", start |-> <<<<0, 0, 0, 0>>, 0>>]
    ELSE LET diff == U64Sub(first_sample_time, clock_data.clockid_time_ns)
             ts == U64Add(clock_data.wall_clock_ns, diff.value)
             split == U64DivRem(ts.value, NS_PER_S)
         IN  IF overflow_checks /\ (diff.overflow \/ ts.overflow)
             THEN [outcome |-> "panic"]
             ELSE [outcome |-> "Ok", start |-> <<split.quot, split.rem>>]

\* the calls: CLOCK_DATA absent or present, wall clock and clock id times of
\* 0, 10_000_000_000, 10_500_000_000, 1_700_000_000_000_000_000 and 2^64 - 1
HeaderStartCalls ==
    LET Times == {<<0, 0, 0, 0>>, <<58368, 21515, 2, 0>>, <<18688, 29145, 2, 0>>}
        Walls == {<<0, 0, 0, 0>>, <<0, 13866, 40190, 6039>>,
                  <<65535, 65535, 65535, 65535>>}
    IN  {[fn |-> "header_start",
          clock_data |-> [present |-> TRUE, wall_clock_ns |-> wall,
                          clockid_time_ns |-> clockid],
          first_sample_time |-> first, overflow_checks |-> checks] :
            wall \in Walls, clockid \in Times, first \in Times,
            checks \in BOOLEAN}
        \cup
        {[fn |-> "header_start", clock_data |-> NoClockData,
          first_sample_time |-> first, overflow_checks |-> checks] :
            first \in Times, checks \in BOOLEAN}

-----------------------------------------------------------------------------
(* The calls, and one action for each function                              *)

Calls ==
    ActionMappingCalls \cup ParseImplCalls \cup ClassifyCalls \cup GetBytesCalls
    \cup ParseArrayCalls \cup ParseScalarCalls \cup FormatParseCalls
    \cup HeaderStartCalls

InitCalls ==
    /\ pc = "start"
    /\ states = [cpuid \in Cpus |-> NewDatum(cpuid)]
    /\ prev_states = [cpuid \in Cpus |-> NewDatum(cpuid)]
    /\ output = <<>>
    /\ action_map = <<>>
    /\ start_time = 0
    /\ ctr = 0
    /\ nrec = 0
    /\ clock = FirstSampleTime
    /\ last = NoSample
    /\ hist = [c \in Cpus |-> <<>>]
    /\ entered = {}
    /\ call \in Calls
    /\ ret = NoCall

Pending(fn) == call.fn = fn /\ ret = NoCall

CallActionMapping ==
    /\ Pending("action_mapping")
    /\ ret' = Returns("action_mapping", ActionMappingOrErr(call.attrs))
    /\ UNCHANGED <<mainvars, call>>

CallParseImpl ==
    /\ Pending("parse_impl")
    /\ ret' = Returns("parse_impl", ParseImpl(call.action, call.data))
    /\ UNCHANGED <<mainvars, call>>

CallClassify ==
    /\ Pending("classify")
    /\ ret' = Returns("classify", Classify(call.comm))
    /\ UNCHANGED <<mainvars, call>>

\* op.get_bytes(record), as the scalar parsers call it
CallGetBytes ==
    /\ Pending("get_bytes")
    /\ ret' = Returns("get_bytes",
                      GetBytes(call.op, call.record, call.overflow_checks))
    /\ UNCHANGED <<mainvars, call>>

CallParseArray ==
    /\ Pending("parse_array")
    /\ ret' = Returns("parse_array",
                      ParseArray(call.op, call.record, call.order,
                                 call.overflow_checks))
    /\ UNCHANGED <<mainvars, call>>

CallParseScalar ==
    /\ Pending("parse_scalar")
    /\ ret' = Returns("parse_scalar",
                      ParseScalar(call.ty, call.op, call.record, call.order,
                                  call.debug_assertions, call.overflow_checks))
    /\ UNCHANGED <<mainvars, call>>

CallFormatParse ==
    /\ Pending("format_parse")
    /\ ret' = Returns("format_parse", TracepointFormatParse(call.text))
    /\ UNCHANGED <<mainvars, call>>

CallHeaderStart ==
    /\ Pending("header_start")
    /\ ret' = Returns("header_start",
                      HeaderStart(call.clock_data, call.first_sample_time,
                                  call.overflow_checks))
    /\ UNCHANGED <<mainvars, call>>

NextCalls ==
    \/ CallActionMapping
    \/ CallParseImpl
    \/ CallClassify
    \/ CallGetBytes
    \/ CallParseArray
    \/ CallParseScalar
    \/ CallFormatParse
    \/ CallHeaderStart

SpecCalls == InitCalls /\ [][NextCalls]_vars

-----------------------------------------------------------------------------
(* Properties.  A step that applied a sample is one that delivered a       *)
(* record (nrec grows) and left an event kind in last'.  The sample's CPU  *)
(* is last'.cpu, its relative time is clock - start_time.                  *)

EventKinds == {"BeginThread", "BeginOther", "End", "Migrate"}

AppliedKind(kind) == nrec' = nrec + 1 /\ last'.kind = kind
AppliedAny == nrec' = nrec + 1 /\ last'.kind \in EventKinds

SampleTime == clock - start_time

S_bash_42 == <<"b", "a", "s", "h", ":", "4", "2">>
S_swapper0_0 == <<"s", "w", "a", "p", "p", "e", "r", "/", "0", ":", "0">>
S_IRQ_7_eth0 == <<"I", "R", "Q", " ", "7", ":", " ", "e", "t", "h", "0">>

InterruptStates == {Irq, Softirq, Tasklet}

\* the value a decimal string stands for, as a reader of the output parses it
DigitValue(ch) == CHOOSE d \in 0..9 : DecDigits[d + 1] = ch
RECURSIVE DecimalValue(_)
DecimalValue(str) ==
    IF Len(str) = 0 THEN 0
    ELSE DecimalValue(SubSeq(str, 1, Len(str) - 1)) * 10 + DigitValue(str[Len(str)])

IsDigits(str) ==
    /\ Len(str) >= 1
    /\ \A i \in 1..Len(str) : \E d \in 0..9 : DecDigits[d + 1] = str[i]

\* the lines a step appended to the output
Appended == SubSeq(output', Len(output) + 1, Len(output'))
AppendOnly ==
    /\ Len(output') >= Len(output)
    /\ SubSeq(output', 1, Len(output)) = output

C2_MigrateMovesSlot ==
    [][AppliedKind("Migrate") =>
         LET from == last'.event.from
             to == last'.event.to
         IN  /\ from # to
             /\ states'[to].state = states[from].state
             /\ states'[to].tag = states[from].tag
             /\ states'[from].state = Idle
             /\ states'[from].tag = Some(<<>>)
             /\ states'[from].tag # None
             /\ states'[from].time = SampleTime
             /\ states'[to].time = SampleTime]_vars

\* C2 witness: a Migrate moved the thread bash:42 to the destination and left
\* Idle with the empty tag behind.
C2_Witness ==
    /\ last.kind = "Migrate"
    /\ states[last.event.to].tag = Some(S_bash_42)
    /\ states[last.event.to].state = User
    /\ states[last.event.from].tag = Some(<<>>)
    /\ states[last.event.from].state = Idle
    /\ last.time > 0

\* C3: every Migrate{from, to} writes two lines at time t, one for the slot of
\* CPU `to` and one for the slot of CPU `from`.
C3_MigrateWritesBothSlots ==
    [][AppliedKind("Migrate") =>
         \E i, j \in 1..Len(Appended) :
             /\ i # j
             /\ Appended[i].entity = states[last'.event.to].entity
             /\ Appended[j].entity = states[last'.event.from].entity
             /\ DecimalValue(Appended[i].time) = SampleTime
             /\ DecimalValue(Appended[j].time) = SampleTime]_vars

\* C4: after a sample on CPU c at relative time t is applied, current[c].time
\* is t and the snapshot of current[c] (time, entity, state, tag) is appended
\* to the output.
C4_SampleTimedAndWritten ==
    [][AppliedAny =>
         LET c == last'.cpu
         IN  /\ states'[c].time = SampleTime
             /\ AppendOnly
             /\ \E i \in 1..Len(Appended) :
                   /\ DecimalValue(Appended[i].time) = SampleTime
                   /\ IsDigits(Appended[i].time)
                   /\ Appended[i].entity = states'[c].entity
                   /\ Appended[i].state = states'[c].state
                   /\ Appended[i].tag = states'[c].tag]_vars

\* C4 witness: the last line is the snapshot of an interrupt context entered
\* at a time after the first sample.
C4_Witness ==
    /\ last.kind = "BeginOther"
    /\ last.time > 0
    /\ states[last.cpu].time = last.time
    /\ output[Len(output)].tag = Some(S_IRQ_7_eth0)
    /\ output[Len(output)].state = Irq
    /\ output[Len(output)].entity = states[last.cpu].entity

\* C5: the header is written once and is the first line, before any datum;
\* every applied sample appends exactly one datum line, for its CPU and time,
\* no other step appends a line, and a written line is never changed, moved
\* or removed: the k-th datum line is that of the k-th applied sample.
C5_HeaderFirstLinesInOrder ==
    /\ [](pc = "start" => output = <<>>)
    /\ [](pc # "start" =>
            /\ Len(output) >= 1
            /\ IsHeader(output[1])
            /\ \A i \in 2..Len(output) : IsDatum(output[i]) /\ ~IsHeader(output[i]))
    /\ [][/\ AppendOnly
          /\ AppliedAny =>
                /\ Len(Appended) = 1
                /\ Appended[1].entity = states[last'.cpu].entity
                /\ DecimalValue(Appended[1].time) = SampleTime
          /\ (~AppliedAny /\ pc # "start") => Appended = <<>>
          /\ pc = "start" => (Len(Appended) = 1 /\ IsHeader(Appended[1]))]_vars

\* C5 witness: the header and the lines of three samples, the first two on
\* different CPUs, in the order of the samples.
C5_Witness ==
    /\ Len(output) = 4
    /\ IsHeader(output[1])
    /\ output[2].entity # output[3].entity
    /\ DecimalValue(output[2].time) < DecimalValue(output[3].time)
    /\ DecimalValue(output[3].time) < DecimalValue(output[4].time)

\* C6: the samples arrive with non-decreasing timestamps (the clock of the
\* capture only advances), and for every CPU the times of the lines of that
\* CPU are non-decreasing in output order.
C6_PerCpuTimesNonDecreasing ==
    \A i, j \in 2..Len(output) :
        (i < j /\ output[i].entity = output[j].entity) =>
            DecimalValue(output[i].time) <= DecimalValue(output[j].time)

\* C6 witness: a CPU whose slot was restored by an End from a slot saved
\* earlier has three lines with growing times.
C6_Witness ==
    /\ Len(output) = 4
    /\ last.kind = "End"
    /\ output[2].entity = output[3].entity
    /\ output[3].entity = output[4].entity
    /\ output[3].state \in InterruptStates
    /\ DecimalValue(output[2].time) < DecimalValue(output[3].time)
    /\ DecimalValue(output[3].time) < DecimalValue(output[4].time)
    /\ prev_states[last.cpu].time < states[last.cpu].time

\* C7: for every CPU c the entity of current[c] and saved[c] is the decimal
\* string of c and their state is one of 0..5; before the first step both are
\* {entity = str(c), time = 0, state = Idle, tag = None}; every datum line has
\* a digits-only entity and a state in 0..5.
C7_SlotsWellFormed ==
    /\ DOMAIN states = Cpus /\ DOMAIN prev_states = Cpus
    /\ \A c \in Cpus :
          /\ states[c].entity = <<DecDigits[c + 1]>>
          /\ prev_states[c].entity = <<DecDigits[c + 1]>>
          /\ DecimalValue(states[c].entity) = c
          /\ states[c].state \in 0..5
          /\ prev_states[c].state \in 0..5
    /\ pc = "start" =>
          \A c \in Cpus :
              /\ states[c] = [time |-> 0, entity |-> <<DecDigits[c + 1]>>,
                              state |-> 0, tag |-> [some |-> FALSE, val |-> <<>>]]
              /\ prev_states[c] = states[c]
    /\ \A i \in 2..Len(output) :
          /\ IsDigits(output[i].entity)
          /\ output[i].state \in 0..5

\* C7 witness: a CPU in an interrupt context over a saved thread, after a
\* migration to it, with lines written.
C7_Witness ==
    \E c \in Cpus :
        /\ states[c].state \in InterruptStates
        /\ prev_states[c].state = User
        /\ prev_states[c].tag = Some(S_bash_42)
        /\ \E d \in Cpus : d # c /\ states[d].tag = Some(<<>>)
        /\ Len(output) = 4

\* the tag "<comm>:<pid>" of the threads of the capture
ExpectedThreadTag(comm, pid) ==
    CASE comm = S_bash /\ pid = 42 -> S_bash_42
      [] comm = S_swapper0 /\ pid = 0 -> S_swapper0_0

\* C8: BeginThread{state, comm, pid} on CPU c at time t sets current[c] to
\* state, tag "<comm>:<pid>" and time t and changes no saved slot, whatever
\* current[c] was.
C8_BeginThreadSetsCurrent ==
    [][AppliedKind("BeginThread") =>
         LET c == last'.cpu
             e == last'.event
         IN  /\ states'[c].state = e.state
             /\ states'[c].tag = Some(ExpectedThreadTag(e.comm, e.pid))
             /\ states'[c].time = SampleTime
             /\ states'[c].entity = states[c].entity
             /\ prev_states' = prev_states]_vars

\* C8 witness: bash:42 was switched in on a CPU whose current slot was the
\* interrupt context IRQ 7: eth0, written by the sample just before.
C8_Witness ==
    /\ last.kind = "BeginThread"
    /\ states[last.cpu].state = User
    /\ states[last.cpu].tag = Some(S_bash_42)
    /\ Len(output) >= 3
    /\ output[Len(output) - 1].entity = states[last.cpu].entity
    /\ output[Len(output) - 1].state = Irq
    /\ output[Len(output) - 1].tag = Some(S_IRQ_7_eth0)

\* C9: BeginOther{state, tag} on CPU c at time t copies the whole of
\* current[c] into saved[c] and then sets current[c] to state, tag and time t,
\* on every BeginOther, nested ones included.
C9_BeginOtherSavesCurrent ==
    [][AppliedKind("BeginOther") =>
         LET c == last'.cpu
             e == last'.event
         IN  /\ prev_states'[c] = states[c]
             /\ \A d \in Cpus \ {c} : prev_states'[d] = prev_states[d]
             /\ states'[c].state = e.state
             /\ states'[c].tag = Some(e.tag)
             /\ states'[c].time = SampleTime
             /\ states'[c].entity = states[c].entity]_vars

\* C9 witness: a softirq entered inside IRQ 7: eth0, which is now the saved
\* slot.
C9_Witness ==
    /\ last.kind = "BeginOther"
    /\ states[last.cpu].state = Softirq
    /\ prev_states[last.cpu].state = Irq
    /\ prev_states[last.cpu].tag = Some(S_IRQ_7_eth0)
    /\ prev_states[last.cpu].time < states[last.cpu].time

\* C10: End on CPU c at time t sets current[c] to the state and tag of
\* saved[c] with time t and changes no saved slot; on a CPU no BeginOther was
\* applied on, that is the initial slot (Idle, no tag).
C10_EndRestoresSaved ==
    [][AppliedKind("End") =>
         LET c == last'.cpu
         IN  /\ states'[c].state = prev_states[c].state
             /\ states'[c].tag = prev_states[c].tag
             /\ states'[c].entity = prev_states[c].entity
             /\ states'[c].time = SampleTime
             /\ prev_states' = prev_states
             /\ c \notin entered =>
                   /\ states'[c].state = Idle
                   /\ states'[c].tag = None]_vars

\* C10 witness: an End with no BeginOther before it replaced the running
\* thread bash:42 by the initial slot.
C10_Witness ==
    /\ last.kind = "End"
    /\ last.cpu \notin entered
    /\ states[last.cpu].state = Idle
    /\ states[last.cpu].tag = None
    /\ Len(output) >= 3
    /\ output[Len(output) - 1].entity = states[last.cpu].entity
    /\ output[Len(output) - 1].tag = Some(S_bash_42)

\* the tags of the threads the captures switch in
ThreadTags == {Some(S_bash_42), Some(S_swapper0_0)}

\* C11: with a thread T running on CPU c, then BeginOther A and BeginOther B on
\* c (no Switch or Migrate touching c in between), the End that follows B
\* restores current[c] to the state and tag of T.
C11_InnermostEndRestoresThread ==
    [][\A c \in Cpus :
          (/\ AppliedKind("End") /\ last'.cpu = c
           /\ last.kind = "BeginOther" /\ last.cpu = c
           /\ Len(hist[c]) = 2
           /\ hist[c][1].tag \in ThreadTags) =>
              /\ states'[c].state = hist[c][1].state
              /\ states'[c].tag = hist[c][1].tag]_vars

\* the run has ended at a sample: the panic of the assertion, or the error
\* returned from main
AbortKinds == {"panic", "error"}

\* C12: a sample decoded to Migrate{from, to} with from = to aborts the run at
\* that sample: it changes no current or saved slot and writes no line, and
\* no record after it is processed, so no later line is written.
C12_SameCpuMigrateAborts ==
    /\ [][(/\ nrec' = nrec + 1
           /\ "event" \in DOMAIN last'
           /\ last'.event.kind = "Migrate"
           /\ last'.event.from = last'.event.to) =>
              /\ pc' = "aborted"
              /\ last'.kind = "panic"
              /\ states' = states
              /\ prev_states' = prev_states
              /\ output' = output]_vars
    /\ [](last.kind = "panic" => pc = "aborted")
    /\ [][last.kind = "panic" =>
              /\ last' = last
              /\ nrec' = nrec
              /\ output' = output]_vars

\* C12 witness: the run was aborted by a Migrate from CPU 0 to CPU 0 after two
\* samples were applied; their lines and the thread bash:42 are still there.
C12_Witness ==
    /\ last.kind = "panic"
    /\ last.event.from = 0 /\ last.event.to = 0
    /\ pc = "aborted"
    /\ nrec = 3
    /\ Len(output) = 3
    /\ \E c \in Cpus : states[c].tag = Some(S_bash_42)

S_sixteen_42 == S_sixteen \o <<":", "4", "2">>

\* C13: a non-ignored sample whose payload does not decode aborts the run with
\* an error: the step changes no current or saved slot and writes no line, no
\* record after it is processed, and the lines written are those of samples
\* before it (fewer lines than samples seen); no line comes from a payload
\* that does not decode.
C13_DecodeFailureAborts ==
    /\ [][(nrec' = nrec + 1 /\ last'.kind = "error") =>
              /\ pc = "loop" /\ pc' = "aborted"
              /\ ctr' = ctr + 1
              /\ states' = states
              /\ prev_states' = prev_states
              /\ output' = output]_vars
    /\ [](last.kind = "error" => pc = "aborted" /\ Len(output) <= ctr)
    /\ [](pc = "aborted" => last.kind \in AbortKinds)
    /\ [][last.kind = "error" =>
              /\ last' = last
              /\ nrec' = nrec
              /\ output' = output]_vars
    /\ [](\A i \in 2..Len(output) : output[i].tag # Some(S_sixteen_42))

\* C13 witness: the third sample did not decode; the header and the lines of
\* the two samples before it are the output.
C13_Witness ==
    /\ last.kind = "error"
    /\ pc = "aborted"
    /\ ctr = 3
    /\ Len(output) = 3
    /\ IsHeader(output[1])
    /\ output[3].tag = Some(S_IRQ_7_eth0)

\* C14: a record that is not a SAMPLE, and a SAMPLE whose attribute maps to
\* Ignore, changes no current or saved slot and writes no line, and the loop
\* goes on with the next record; only a SAMPLE counts in ctr.
C14_SkippedRecordsChangeNothing ==
    [][(nrec' = nrec + 1 /\ last'.kind \in {"none", "ignored"}) =>
          /\ states' = states
          /\ prev_states' = prev_states
          /\ output' = output
          /\ pc = "loop" /\ pc' = "loop"
          /\ ctr' = IF last'.kind = "ignored" THEN ctr + 1 ELSE ctr]_vars

\* C14 witness: of three records one was no SAMPLE and one was an ignored
\* SAMPLE; the third one was applied after them and wrote the only line.
C14_Witness ==
    /\ nrec = 3
    /\ ctr = 2
    /\ Len(output) = 2
    /\ last.kind = "BeginThread"
    /\ states[last.cpu].tag = Some(S_bash_42)
    /\ last.time = 1

\* a call of fn has returned
Returned(fn) == call.fn = fn /\ ret.fn = fn

\* the table of the action mapper, as pairs <<name, action>>
FixedTable ==
    {<<"irq:irq_handler_entry", "EnterIrq">>, <<"irq:irq_handler_exit", "ExitIrq">>,
     <<"irq:softirq_entry", "EnterSoftirq">>, <<"irq:softirq_exit", "ExitSoftirq">>,
     <<"irq:tasklet_entry", "EnterTasklet">>, <<"irq:tasklet_exit", "ExitTasklet">>,
     <<"sched:sched_switch", "Switch">>, <<"sched:sched_migrate_task", "Migrate">>}

\* C15: for attributes that all have a name, action_mapping returns a table
\* with exactly one entry per attribute, at the attribute's index (from 0),
\* which is the action of the fixed table for the eight names of the table
\* and Ignore for every other name, listed or unknown; it returns no error.
C15_ActionTableByName ==
    (Returned("action_mapping") /\ \A i \in 1..Len(call.attrs) : call.attrs[i] # NoName) =>
        /\ ret.val.ok
        /\ DOMAIN ret.val.map = 0..(Len(call.attrs) - 1)
        /\ \A i \in 1..Len(call.attrs) :
              LET name == call.attrs[i]
                  action == ret.val.map[i - 1]
              IN  IF \E a \in Action : <<name, a>> \in FixedTable
                  THEN <<name, action>> \in FixedTable
                  ELSE action = "Ignore"

\* C15 witness: an unknown name at index 0 and sched:sched_switch at index 1
\* gave the table Ignore, Switch.
C15_Witness ==
    /\ Returned("action_mapping")
    /\ call.attrs = <<"power:cpu_idle", "sched:sched_switch">>
    /\ ret.val.ok
    /\ ret.val.map[0] = "Ignore"
    /\ ret.val.map[1] = "Switch"

\* the value a lower-case hexadecimal string stands for
HexDigitValue(ch) == CHOOSE d \in 0..15 : HexDigits[d + 1] = ch
RECURSIVE HexValue(_)
HexValue(str) ==
    IF Len(str) = 0 THEN 0
    ELSE HexValue(SubSeq(str, 1, Len(str) - 1)) * 16 + HexDigitValue(str[Len(str)])

IsHexDigits(str) ==
    /\ Len(str) >= 1
    /\ \A i \in 1..Len(str) : \E d \in 0..15 : HexDigits[d + 1] = str[i]

\* str is the decimal numeral of n: digits only, no leading zero, "-" for n < 0
IsDecimalOf(str, n) ==
    IF n < 0
    THEN /\ Len(str) >= 2 /\ str[1] = "-"
         /\ IsDigits(Tail(str)) /\ Tail(str)[1] # "0"
         /\ DecimalValue(Tail(str)) = 0 - n
    ELSE /\ IsDigits(str)
         /\ (Len(str) > 1 => str[1] # "0")
         /\ DecimalValue(str) = n

\* str is the text of the C string that starts at bytes[start] (from 1): the
\* bytes up to the first NUL, an invalid byte shown as U+FFFD
IsCStringAt(str, bytes, start) ==
    /\ start + Len(str) <= Len(bytes)
    /\ bytes[start + Len(str)] = NUL
    /\ \A i \in 1..Len(str) :
          /\ bytes[start + i - 1] # NUL
          /\ str[i] = IF bytes[start + i - 1] = "\\xff" THEN "U+FFFD"
                       ELSE bytes[start + i - 1]

\* tag is prefix, then a numeral that Numeral accepts, then suffix
IsTagOf(tag, prefix, Numeral(_), suffix) ==
    \E k \in 1..Len(tag) :
        /\ Len(tag) = Len(prefix) + k + Len(suffix)
        /\ SubSeq(tag, 1, Len(prefix)) = prefix
        /\ Numeral(SubSeq(tag, Len(prefix) + 1, Len(prefix) + k))
        /\ SubSeq(tag, Len(prefix) + k + 1, Len(tag)) = suffix

\* C16: Event::parse_impl yields the event fixed by the action.  Switch gives
\* BeginThread with the comm before the NUL, its classification and next_pid;
\* Migrate gives Migrate{orig_cpu, dest_cpu}; EnterIrq gives BeginOther with
\* state Irq and tag "IRQ <irq>: <name>", the name being the C string at the
\* record offset the pointer holds; EnterSoftirq gives BeginOther, Softirq,
\* "Softirq <vec>"; EnterTasklet gives BeginOther, Tasklet, "Tasklet 0x<hex>";
\* the three exits give End whatever the payload.  It fails on payloads
\* shorter than the fields read (64, 28, 16, 12 and 24 bytes) and decodes the
\* payloads that hold the fields and a NUL-terminated string in range.
C16_DecoderYieldsEventOfAction ==
    Returned("parse_impl") =>
        LET a == call.action
            d == call.data
            r == ret.val
        IN  /\ a \in {"ExitIrq", "ExitSoftirq", "ExitTasklet"} =>
                  r.ok /\ r.event = [kind |-> "End"]
            /\ (a = "Switch" /\ r.ok) =>
                  /\ d.len >= 64
                  /\ DOMAIN r.event = {"kind", "state", "comm", "pid"}
                  /\ r.event.kind = "BeginThread"
                  /\ r.event.pid = d.next_pid
                  /\ IsCStringAt(r.event.comm, d.next_comm, 1)
                  /\ r.event.state =
                        Classify(SubSeq(d.next_comm, 1, Len(r.event.comm)))
            /\ (a = "Switch" /\ d.len >= 64 /\ d.next_comm[16] = NUL) => r.ok
            /\ (a = "Migrate" /\ r.ok) =>
                  /\ d.len >= 28
                  /\ r.event = [kind |-> "Migrate", from |-> d.orig_cpu,
                                to |-> d.dest_cpu]
            /\ (a = "Migrate" /\ d.len >= 28) => r.ok
            /\ (a = "EnterIrq" /\ r.ok) =>
                  /\ d.len >= 16
                  /\ DOMAIN r.event = {"kind", "state", "tag"}
                  /\ r.event.kind = "BeginOther"
                  /\ r.event.state = 1
                  /\ \E name \in {SubSeq(r.event.tag, k, Len(r.event.tag)) :
                                      k \in 1..(Len(r.event.tag) + 1)} :
                        /\ IsCStringAt(name, d.rest, (d.name_ptr % 65536) - 16 + 1)
                        /\ IsTagOf(r.event.tag, <<"I", "R", "Q", " ">>,
                                   LAMBDA num : IsDecimalOf(num, d.irq),
                                   <<":", " ">> \o name)
            /\ (/\ a = "EnterIrq" /\ d.len >= 16
                /\ (d.name_ptr % 65536) >= 16
                /\ \E i \in 1..(d.name_ptr \div 65536) :
                      /\ (d.name_ptr % 65536) - 16 + i <= Len(d.rest)
                      /\ d.rest[(d.name_ptr % 65536) - 16 + i] = NUL
                /\ (d.name_ptr % 65536) - 16 + (d.name_ptr \div 65536)
                      <= Len(d.rest)) => r.ok
            /\ (a = "EnterSoftirq" /\ r.ok) =>
                  /\ d.len >= 12
                  /\ DOMAIN r.event = {"kind", "state", "tag"}
                  /\ r.event.kind = "BeginOther"
                  /\ r.event.state = 2
                  /\ IsTagOf(r.event.tag, <<"S", "o", "f", "t", "i", "r", "q", " ">>,
                             LAMBDA num : IsDecimalOf(num, d.vec), <<>>)
            /\ (a = "EnterSoftirq" /\ d.len >= 12) => r.ok
            /\ (a = "EnterTasklet" /\ r.ok) =>
                  /\ d.len >= 24
                  /\ DOMAIN r.event = {"kind", "state", "tag"}
                  /\ r.event.kind = "BeginOther"
                  /\ r.event.state = 3
                  /\ IsTagOf(r.event.tag,
                             <<"T", "a", "s", "k", "l", "e", "t", " ", "0", "x">>,
                             LAMBDA num : /\ IsHexDigits(num)
                                          /\ (Len(num) > 1 => num[1] # "0")
                                          /\ HexValue(num) = d.tasklet,
                             <<>>)
            /\ (a = "EnterTasklet" /\ d.len >= 24) => r.ok

\* C16 witness: the irq_handler_entry of irq -1 with the name eth0 was decoded
\* to BeginOther, Irq, "IRQ -1: eth0".
C16_Witness ==
    /\ Returned("parse_impl")
    /\ call.action = "EnterIrq"
    /\ call.data.irq = -1
    /\ ret.val.ok
    /\ ret.val.event =
          [kind |-> "BeginOther", state |-> 1,
           tag |-> <<"I", "R", "Q", " ", "-", "1", ":", " ", "e", "t", "h", "0">>]

\* comm begins with the bytes of text
HasPrefix(comm, text) ==
    /\ Len(comm) >= Len(text)
    /\ SubSeq(comm, 1, Len(text)) = text

\* C17: Event::classify returns a state for every comm, the one of the first
\* rule whose text the comm begins with: "swapper/" Idle (0), "migration/"
\* Idle, "ksoftirqd/" Softirq (2), "irq/" Irq (1), "kworker/" or "rcu_"
\* Kernel (4), anything else User (5); it never returns Tasklet (3).
C17_ClassifierByPrefix ==
    Returned("classify") =>
        LET comm == call.comm
            state == ret.val
        IN  /\ state \in 0..5
            /\ state # 3
            /\ state =
                  (IF HasPrefix(comm, <<"s", "w", "a", "p", "p", "e", "r", "/">>)
                   THEN 0
                   ELSE IF HasPrefix(comm, <<"m", "i", "g", "r", "a", "t", "i", "o",
                                             "n", "/">>)
                   THEN 0
                   ELSE IF HasPrefix(comm, <<"k", "s", "o", "f", "t", "i", "r", "q",
                                             "d", "/">>)
                   THEN 2
                   ELSE IF HasPrefix(comm, <<"i", "r", "q", "/">>)
                   THEN 1
                   ELSE IF \/ HasPrefix(comm, <<"k", "w", "o", "r", "k", "e", "r", "/">>)
                           \/ HasPrefix(comm, <<"r", "c", "u", "_">>)
                   THEN 4
                   ELSE 5)
            /\ comm = <<"s", "w", "a", "p", "p", "e", "r", "/", "0">> => state = 0
            /\ comm = <<"r", "c", "u", "_", "p", "r", "e", "e", "m", "p", "t">> =>
                  state = 4
            /\ comm = <<"k", "w", "o", "r", "k", "e", "r", "/", "0", ":", "1">> =>
                  state = 4
            /\ comm = <<"s", "w", "a", "p", "p", "e", "r">> => state = 5

\* C17 witness: "ksoftirqd/2" was classified as Softirq.
C17_Witness ==
    /\ Returned("classify")
    /\ call.comm = <<"k", "s", "o", "f", "t", "i", "r", "q", "d", "/", "2">>
    /\ ret.val = 2

\* the field of the ParseOp lies inside the record
FieldInRecord(op, record) ==
    /\ op.offset.hi = 0 /\ op.size.hi = 0
    /\ op.offset.lo + op.size.lo <= Len(record)

\* C18: parse_array on a ParseOp of array kind None or Fixed whose field lies
\* inside the record returns exactly the `size` bytes of the record that
\* start at `offset`, for both kinds alike.
C18_NoneAndFixedReturnSizeBytes ==
    (/\ Returned("parse_array")
     /\ call.op.array_type \in {"None", "Fixed"}
     /\ FieldInRecord(call.op, call.record)) =>
        /\ ret.val.outcome = "Ok"
        /\ ret.val.bytes =
              [i \in 1..call.op.size.lo |-> call.record[call.op.offset.lo + i]]

C20_OutOfRangeIsUnexpectedEof ==
    /\ (Returned("get_bytes") /\ ~FieldInRecord(call.op, call.record)) =>
          ret.val.outcome = "UnexpectedEof"
    /\ (/\ Returned("parse_array") /\ call.op.array_type = "Fixed"
        /\ ~FieldInRecord(call.op, call.record)) =>
          ret.val.outcome = "UnexpectedEof"
    /\ (/\ Returned("parse_array") /\ call.op.array_type = "Trailing"
        /\ call.op.offset.lo > Len(call.record)) =>
          ret.val.outcome = "UnexpectedEof"
    /\ (/\ Returned("parse_array") /\ call.op.array_type = "DataLoc4"
        /\ FieldInRecord(call.op, call.record)
        /\ LET ptr == ReadU32(SubSeq(call.record, call.op.offset.lo + 1,
                                     call.op.offset.lo + 4), call.order)
           IN  ptr.lo + ptr.hi > Len(call.record)) =>
          ret.val.outcome = "UnexpectedEof"

\* C21: a call of parse_<ty>, for each of the eight integer types, on a field
\* of array kind None whose size is size_of(ty) and whose bytes lie inside the
\* record, passes its assertion and returns the integer stored at `offset` in
\* the byte order asked for, whether the field is signed or not.
C21_ScalarReadOnKindAndSize ==
    (/\ Returned("parse_scalar")
     /\ call.op.array_type = "None"
     /\ call.op.size = U32(0, SizeOf(call.ty))
     /\ FieldInRecord(call.op, call.record)) =>
        /\ ret.val.outcome = "Ok"
        /\ ret.val.ty = call.ty
        /\ Len(ret.val.digits) = call.op.size.lo
        /\ \A k \in 1..call.op.size.lo :
              ret.val.digits[k] =
                  IF call.order = "BigEndian"
                  THEN call.record[call.op.offset.lo + k]
                  ELSE call.record[call.op.offset.lo + call.op.size.lo + 1 - k]

\* the array type the rules give a field of this type and size: the first of
\* "__data_loc" in front with size 4, "[]" at the end with size 0, "[", one
\* or more digits and "]" at the end, and none
RuleKind(field_type, size) ==
    LET n == Len(field_type)
        data_loc == HasPrefix(field_type, <<"_", "_", "d", "a", "t", "a", "_", "l", "o", "c">>) /\ size.hi = 0 /\ size.lo = 4
        trailing == /\ n >= 2 /\ field_type[n - 1] = "[" /\ field_type[n] = "]"
                    /\ size.hi = 0 /\ size.lo = 0
        fixed == /\ n >= 3 /\ field_type[n] = "]"
                 /\ \E i \in 1..(n - 2) :
                        /\ field_type[i] = "["
                        /\ IsDigits(SubSeq(field_type, i + 1, n - 1))
    IN  IF data_loc THEN "DataLoc4"
        ELSE IF trailing THEN "Trailing"
        ELSE IF fixed THEN "Fixed"
        ELSE "None"

\* C22: every field of a format that TracepointFormat::parse returns has the
\* array type of the first rule that matches its type and size (DataLoc4,
\* Trailing, Fixed, else None); so a DataLoc4 field has size 4 and a
\* Trailing field has size 0.
C22_ArrayKindByFirstRule ==
    (Returned("format_parse") /\ ret.val.ok) =>
        \A i \in 1..Len(ret.val.fields) :
            LET f == ret.val.fields[i]
            IN  /\ f.array_type = RuleKind(f.field_type, f.size)
                /\ f.array_type = "DataLoc4" => f.size = [hi |-> 0, lo |-> 4]
                /\ f.array_type = "Trailing" => f.size = [hi |-> 0, lo |-> 0]

\* C22 witness: a parsed format with the field `__data_loc char[4] name` of
\* size 4, which two rules match and the first makes DataLoc4, and with the
\* Trailing field `char buf[]` of size 0.
C22_Witness ==
    /\ Returned("format_parse") /\ ret.val.ok
    /\ Len(ret.val.fields) = 2
    /\ ret.val.fields[1].field_type = <<"_", "_", "d", "a", "t", "a", "_", "l", "o", "c", " ", "c", "h", "a", "r", "[", "4", "]">>
    /\ ret.val.fields[1].array_type = "DataLoc4"
    /\ ret.val.fields[2].field_type = <<"c", "h", "a", "r", "[", "]">>
    /\ ret.val.fields[2].field_name = <<"b", "u", "f">>
    /\ ret.val.fields[2].array_type = "Trailing"

\* C23: TracepointFormat::parse returns a ParseError and nothing else for a
\* file with a top-level line of unknown key or without a colon, an ID, offset
\* or size that is no u32, a `signed` other than 0 or 1, an unknown key in a
\* field line, or a field line without exactly four subfields; for a file
\* without such a line it returns a whole TracepointFormat: name, id,
\* print_fmt and one field for each field line.
C23_ParseErrorOrCompleteFormat ==
    Returned("format_parse") =>
        /\ call.defect => ret.val = [ok |-> FALSE]
        /\ ~call.defect =>
              /\ ret.val.ok
              /\ DOMAIN ret.val = {"ok", "name", "id", "print_fmt", "fields"}
              /\ ret.val.name = <<"i", "r", "q", "_", "h", "a", "n", "d", "l", "e", "r", "_", "e", "n", "t", "r", "y">>
              /\ ret.val.id = [hi |-> 0, lo |-> IF call.has_id THEN 308 ELSE 0]
              /\ Len(ret.val.fields) = call.fields

\* C23 witness: a file with one well-formed field line and a defect after it
\* was refused as a whole.
C23_Witness ==
    /\ Returned("format_parse")
    /\ call.defect /\ call.fields = 1
    /\ call.has_id
    /\ ret.val = [ok |-> FALSE]

\* C24: no two fields of a format that TracepointFormat::parse returns have
\* the same field_name.
C24_FieldNamesUnique ==
    (Returned("format_parse") /\ ret.val.ok) =>
        \A i, j \in 1..Len(ret.val.fields) :
            i # j => ret.val.fields[i].field_name # ret.val.fields[j].field_name

\* natural numbers of any size as 16-bit limbs, the least significant first:
\* the sum, and n times a number by doubling
RECURSIVE BigAdd(_, _)
BigAdd(a, b) ==
    IF a = <<>> THEN b
    ELSE IF b = <<>> THEN a
    ELSE LET s == a[1] + b[1]
             rest == BigAdd(Tail(a), Tail(b))
         IN  <<s % 65536>> \o
             (IF s >= 65536 THEN BigAdd(<<1>>, rest) ELSE rest)
RECURSIVE BigTimes(_, _)
BigTimes(n, a) ==
    IF n = 0 THEN <<>>
    ELSE LET half == BigTimes(n \div 2, a)
         IN  BigAdd(BigAdd(half, half), IF n % 2 = 1 THEN a ELSE <<>>)
\* the number without the zero limbs at its top
RECURSIVE BigNorm(_)
BigNorm(a) ==
    IF a # <<>> /\ a[Len(a)] = 0 THEN BigNorm(SubSeq(a, 1, Len(a) - 1)) ELSE a

\* C25: write_header gives start = [ts div 10^9, ts mod 10^9] with the
\* nanoseconds below 10^9, where ts = 0 without CLOCK_DATA and
\* ts = wall_clock_ns + (first_sample_time - clockid_time_ns) with it (that
\* is, ts + clockid_time_ns = wall_clock_ns + first_sample_time); the times
\* 1_700_000_000_000_000_000, 10_000_000_000 and 10_500_000_000 give
\* [1_700_000_000, 500_000_000].
C25_HeaderStartFromClockData ==
    Returned("header_start") =>
        /\ ret.val.outcome = "Ok"
        /\ ret.val.start[2] \in 0..999999999
        /\ ~call.clock_data.present => ret.val.start = <<<<0, 0, 0, 0>>, 0>>
        /\ call.clock_data.present =>
              LET ts == BigAdd(BigTimes(1000000000, ret.val.start[1]),
                               <<ret.val.start[2] % 65536,
                                 ret.val.start[2] \div 65536>>)
              IN  BigNorm(BigAdd(ts, call.clock_data.clockid_time_ns))
                  = BigNorm(BigAdd(call.clock_data.wall_clock_ns,
                                   call.first_sample_time))
        /\ (/\ call.clock_data.present
            /\ call.clock_data.wall_clock_ns = <<0, 13866, 40190, 6039>>
            /\ call.clock_data.clockid_time_ns = <<58368, 21515, 2, 0>>
            /\ call.first_sample_time = <<18688, 29145, 2, 0>>) =>
              ret.val.start = <<<<61696, 25939, 0, 0>>, 500000000>>

\* C26: a BeginThread applied on CPU c while c is in an interrupt context
\* (current[c] is Irq, Softirq or Tasklet since a BeginOther on c) leaves the
\* state of current[c] as it is: the interrupt stays the active state.
C26_SwitchKeepsInterruptState ==
    [][\A c \in Cpus :
         (/\ AppliedKind("BeginThread") /\ last'.cpu = c
          /\ hist[c] # <<>>
          /\ states[c].state \in InterruptStates) =>
             states'[c].state = states[c].state]_vars

\* C27: a Migrate changes no saved slot; an End on a CPU that a migration
\* left Idle with the empty tag overwrites that with the state and tag of
\* the saved slot; and the saved slot of a CPU a BeginOther was applied on,
\* with no BeginThread or Migrate on it since, holds the state and tag the
\* CPU had before the latest BeginOther, also right after a Migrate from it.
C27_MigrateKeepsSavedSlots ==
    /\ [][AppliedKind("Migrate") => prev_states' = prev_states]_vars
    /\ [][\A c \in Cpus :
            (/\ AppliedKind("End") /\ last'.cpu = c
             /\ states[c].state = Idle /\ states[c].tag = Some(<<>>)) =>
                /\ states'[c].state = prev_states[c].state
                /\ states'[c].tag = prev_states[c].tag]_vars
    /\ [][\A c \in Cpus :
            (/\ AppliedKind("Migrate") /\ last'.event.from = c
             /\ hist[c] # <<>>) =>
                /\ prev_states'[c].state = hist[c][Len(hist[c])].state
                /\ prev_states'[c].tag = hist[c][Len(hist[c])].tag]_vars

\* C27 witness: on CPU 0 the switch to bash:42, the entry of IRQ 7, bash:42
\* again, the migration to CPU 1 that leaves CPU 0 Idle with the empty tag,
\* and the End that restores bash:42 from the saved slot: bash:42 is the
\* current tag of CPU 0 and of CPU 1.
C27_Witness ==
    /\ last.kind = "End" /\ last.cpu = 0
    /\ Len(output) = 6
    /\ \A i \in 2..6 : output[i].entity = <<"0">>
    /\ output[2].tag = Some(S_bash_42)
    /\ output[3].tag = Some(S_IRQ_7_eth0)
    /\ output[4].tag = Some(S_bash_42)
    /\ output[5].tag = Some(<<>>) /\ output[5].state = Idle
    /\ output[6].tag = Some(S_bash_42)
    /\ prev_states[0].tag = Some(S_bash_42)
    /\ states[0].tag = Some(S_bash_42) /\ states[0].state = User
    /\ states[1].tag = Some(S_bash_42) /\ states[1].state = User

=============================================================================
